---- MODULE Spec2Model ----
(***************************************************************************)
(* Model of tiny-trae: the agent core loop (internal/agent/message.go,     *)
(* Agent.Run / runCore / executeTool) and the Display Surfaces it talks to *)
(* (ConsoleFrontend in internal/agent/agent.go, TUIFrontend in             *)
(* internal/frontend/tui.go).                                              *)
(*                                                                         *)
(* The core goroutine is modelled step by step; every Frontend.SendMessage *)
(* call is a step of its own (the variable `sending` holds the Message     *)
(* while the call has not returned), because for the interactive TUI the   *)
(* call is a rendezvous with the UI event loop.                            *)
(*                                                                         *)
(* Spec is the program as main wires it: Run is given context.TODO(), a    *)
(* context that is never cancelled.                                        *)
(* SpecUI is the interactive TUI with the spinner ticks and window resizes *)
(* of its event loop.  SpecLong is the interactive TUI with a gateway that *)
(* gives longer turns.  SpecHost adds the Close calls of the program that  *)
(* hosts the agent.  SpecCancel is the console agent run under a context   *)
(* that its owner may cancel; SpecCancelUI is the same for the interactive *)
(* TUI, with the program's steps taken fairly.                             *)
(* SpecTick is the interactive TUI started without an initial message in  *)
(* a window that keeps its size, with the tick handler taken fairly.       *)
(* SpecAsync takes                                                         *)
(* program.Send and the Update it causes as two steps (in the other        *)
(* specifications they are one: Update runs before the event loop takes    *)
(* another event, so the UI's states are the same; only what the core does *)
(* between the two differs).  SpecDone is the interactive TUI with its      *)
(* host's Close calls and a gateway that is down.  SpecBatch is the run on *)
(* a Frontend that is not interactive, with its steps taken fairly.        *)
(* SpecExec, SpecEdit and SpecRecv are specifications of one function      *)
(* each: one call of executeTool, of tools.EditFile, and of the TUI's      *)
(* handler of a received Message, over bounded sets of inputs.             *)
(***************************************************************************)
EXTENDS Naturals, Sequences, FiniteSets, TLC

\* ---------------------------------------------------------------- bounds
\* model calls answered by the Model Gateway in one run
MaxModelCalls == 2
\* content items (text / tool_use) the gateway returns over one run
MaxItems == 2
\* the same, for the specification of long turns (SpecLong)
MaxLongItems == 3

\* ------------------------------------------------------------- constants
MessageTypeUserInput  == "user_input"
MessageTypeAssistant  == "assistant"
MessageTypeToolCall   == "tool_call"
MessageTypeToolResult == "tool_result"
MessageTypeError      == "error"
MessageTypeSystemInfo == "system_info"

\* the names registered by tools.GetAllTools
Catalog == {"read_file", "list_files", "edit_file", "ripgrep", "bash"}
\* the names the gateway asks for: one registered, one not
RequestedNames == {"list_files", "no_such_tool"}
\* what the user types / passes with -p
UserText == "hi"
\* the values the TUI's input field takes: empty, or the key typed into it
FieldTexts == {"", "q"}
\* the error of a failed model call, of a failed tool function
LLMError  == "api error"
ToolError == "tool failed"
ToolOutput == "out"
\* Go's nil error
Nil == "nil"

VARIABLES
    frontend,        \* "console" | "tui": the Frontend main attached
    interactive,     \* Frontend.IsInteractive()
    initialMessage,  \* Run's initialMessage ("" when none)
    runPc,           \* Agent.Run: "start" | "spawn" | "select" | "returned"
    runResult,       \* the error Run returned (Nil for nil), "none" before
    errorChan,       \* Run's errorChan (capacity 1)
    corePc,          \* runCore: "idle" | "start" | "loop" | "getInput" | "infer"
                     \*          | "content" | "toolFn" | "return" | "done"
    retVal,          \* the value runCore is about to return
    conversation,    \* runCore's conversation
    readUserInput,   \* runCore's readUserInput
    message,         \* the content of the model response being processed
    idx,             \* index of the content item the range loop is at
    toolResults,     \* runCore's toolResults
    sending,         \* the Message inside a SendMessage call that has not returned
    modelCalls,      \* model calls answered so far
    itemsUsed,       \* content items returned so far
    nextId,          \* next invocation identifier the gateway assigns
    trace,           \* history: what the core did, in order
    stdout,          \* history: lines the surface printed, in order
    uiPc,            \* the tea.Program: "off" | "running" | "blocked" (in a handler)
                     \*   | "quit" (Run returned) | "finished" (done was sent)
    ui,              \* the tuiModel the program holds
    inputCh,         \* TUIFrontend.inputCh (capacity 1)
    done,            \* TUIFrontend.done (capacity 1)
    quitPending,     \* a tea.Quit command was returned, its QuitMsg is under way
    tickPending,     \* a spinner tick command was returned, its TickMsg is under way
    ctxDone,         \* the context given to Run is cancelled
    cancelAt,        \* corePc at the moment of the cancellation ("none" before)
    closePc,         \* Frontend.Close: "idle" | "quit" | "select" | "waitDone" | "returned"
    closeCalls,      \* calls of Close made so far
    closeAt,         \* <<runPc, corePc>> at the latest call of Close
    call             \* a single call of executeTool or of a tool function, for the
                     \*   specifications of one function (NoCall in the others)

coreVars == <<corePc, retVal, conversation, readUserInput, message, idx, toolResults>>
runVars  == <<runPc, runResult, errorChan>>
cfgVars  == <<frontend, interactive, initialMessage>>
gwVars   == <<modelCalls, itemsUsed, nextId>>
vars == <<frontend, interactive, initialMessage, runPc, runResult, errorChan,
          corePc, retVal, conversation, readUserInput, message, idx, toolResults,
          sending, modelCalls, itemsUsed, nextId, trace, stdout,
          uiPc, ui, inputCh, done, quitPending, tickPending,
          ctxDone, cancelAt, closePc, closeCalls, closeAt, call>>
uiVars == <<uiPc, ui, inputCh, done, quitPending, tickPending>>
closeVars == <<closePc, closeCalls, closeAt>>
hostVars == <<ctxDone, cancelAt, closePc, closeCalls, closeAt>>

\* ------------------------------------------------------------ data model
\* agent.Message, with the fields of ToolCallData / ToolResultData that its
\* Data carries (has_data is FALSE when Data is absent)
Msg(type, content, has_data, tool_name, tool_id, result, is_error) ==
    [type |-> type, content |-> content, has_data |-> has_data,
     tool_name |-> tool_name, tool_id |-> tool_id, result |-> result,
     is_error |-> is_error]

NoMsg == Msg("none", "", FALSE, "", 0, "", FALSE)

\* no single function call is under way
NoCall == [pc |-> "none"]

\* a content block of a conversation turn or of a model response
Blk(type, text, id, name, is_error) ==
    [type |-> type, text |-> text, id |-> id, name |-> name, is_error |-> is_error]

\* anthropic.NewTextBlock
NewTextBlock(text) == Blk("text", text, 0, "", FALSE)
\* a tool_use content item of a response
ToolUseBlock(id, name) == Blk("tool_use", "", id, name, FALSE)
\* anthropic.NewToolResultBlock(id, content, isError)
NewToolResultBlock(id, content, isError) == Blk("tool_result", content, id, "", isError)

\* anthropic.NewUserMessage(blocks...)
NewUserMessage(blocks) == [role |-> "user", content |-> blocks]
\* mutant of ToParam: the response is appended as a user-role turn
ToParam_AsUser(content) == [role |-> "user", content |-> content]

\* message.ToParam()
ToParam(content) == [role |-> "assistant", content |-> content]

SelectBlocks(s, type) == SelectSeq(s, LAMBDA b : b.type = type)
ToolUses(turn) == SelectBlocks(turn.content, "tool_use")
IsAssistantTurn(turn) == turn.role = "assistant"
IsUserTextTurn(turn) ==
    /\ turn.role = "user"
    /\ Len(turn.content) = 1
    /\ turn.content[1].type = "text"
\* a user-role turn built from tool-result blocks, NewUserMessage(toolResults...)
IsToolResultsTurn(turn) ==
    /\ turn.role = "user"
    /\ ~IsUserTextTurn(turn)

\* one entry of the history
Ev(ev, type, id, name, text, is_error, n) ==
    [ev |-> ev, type |-> type, id |-> id, name |-> name, text |-> text,
     is_error |-> is_error, n |-> n]
EvSend(m) ==
    Ev("send", m.type, m.tool_id, m.tool_name,
       IF m.type = MessageTypeToolResult /\ m.has_data THEN m.result ELSE m.content,
       m.is_error, IF m.has_data THEN 1 ELSE 0)


Last(s) == s[Len(s)]

\* --------------------------------------------------------- Model Gateway
\* The gateway is opaque: a call fails, or returns content items.  A response
\* is drawn as a sequence of item kinds; the gateway gives every tool
\* invocation a fresh identifier.
ItemKinds == {"text"} \cup RequestedNames
AssistantText == "ok"
OtherText == "then"
\* the text of the k-th content item: neighbouring text items differ
ItemText(k) == IF k % 2 = 1 THEN AssistantText ELSE OtherText

KindSeqs(n) == UNION {[1..k -> ItemKinds] : k \in 0..n}

ToolsBefore(ks, k) == Cardinality({j \in 1..(k - 1) : ks[j] # "text"})

ResponseContent(ks, firstId) ==
    [k \in 1..Len(ks) |->
        IF ks[k] = "text" THEN NewTextBlock(ItemText(k))
        ELSE ToolUseBlock(firstId + ToolsBefore(ks, k), ks[k])]

\* ------------------------------------------------------------ executeTool
\* the lookup loop of executeTool: found iff some catalog entry has the name
Found(name) == name \in Catalog

\* json.Marshal of a ToolResultData (two strings, an id, a bool) cannot fail
MarshalToolResultData(name, id, result, isError) == Nil
\* json.Marshal of a ToolCallData; the gateway's raw input is valid JSON
MarshalToolCallData(name, id) == Nil

\* the tool_call Message executeTool sends for a found tool
ToolCallMessage(name, id) ==
    IF MarshalToolCallData(name, id) # Nil
    THEN Msg(MessageTypeToolCall, "Executing tool: " \o name, FALSE, "", 0, "", FALSE)
    ELSE Msg(MessageTypeToolCall, "Executing tool: " \o name, TRUE, name, id, "", FALSE)

\* mutant of NotFoundMessage: a tool_call Message is sent for the missing tool
NotFoundMessage_AsCall(name, id) ==
    Msg(MessageTypeToolCall, "Executing tool: " \o name, TRUE, name, id, "", FALSE)

\* the tool_result Message executeTool sends when no catalog entry matches
NotFoundMessage(name, id) ==
    IF MarshalToolResultData(name, id, "tool not found", TRUE) # Nil
    THEN Msg(MessageTypeToolResult, "tool not found", FALSE, "", 0, "", FALSE)
    ELSE Msg(MessageTypeToolResult, "", TRUE, name, id, "tool not found", TRUE)

\* mutants of NotFoundBlock: the identifier is lost; the error flag is lost
NotFoundBlock_NoId(id) == NewToolResultBlock(0, "tool not found", TRUE)
NotFoundBlock_NoError(id) == NewToolResultBlock(id, "tool not found", FALSE)

\* the block executeTool returns when no catalog entry matches
NotFoundBlock(id) == NewToolResultBlock(id, "tool not found", TRUE)

\* result and isError as executeTool computes them from (response, err)
ToolResultText(response, err) == IF err # Nil THEN err ELSE response
ToolIsError(err) == err # Nil

\* mutant of ToolResultMessage: the result is announced as one more call
ToolResultMessage_AsCall(name, id, response, err) ==
    Msg(MessageTypeToolCall, "Executing tool: " \o name, TRUE, name, id, "", FALSE)

\* the tool_result Message executeTool sends after the function returned
ToolResultMessage(name, id, response, err) ==
    LET result  == ToolResultText(response, err)
        isError == ToolIsError(err)
    IN  IF MarshalToolResultData(name, id, result, isError) # Nil
        THEN Msg(MessageTypeToolResult, result, FALSE, "", 0, "", FALSE)
        ELSE Msg(MessageTypeToolResult, result, TRUE, name, id, result, isError)

\* the block executeTool returns after the function returned.  The variable
\* err tested by the final `if err != nil` was reassigned by
\* `data, err = json.Marshal(toolResultData)`: it is Marshal's error, not the
\* tool function's.
ExecuteToolBlock(name, id, response, fnErr) ==
    LET result  == ToolResultText(response, fnErr)
        isError == ToolIsError(fnErr)
        err     == MarshalToolResultData(name, id, result, isError)
    IN  IF err # Nil
        THEN NewToolResultBlock(id, err, TRUE)
        ELSE NewToolResultBlock(id, response, FALSE)

\* ------------------------------------------------------------- Agent.Run
\* Run, up to the go statement: the system_info Message when no initial
\* message is given
Run_Start ==
    /\ runPc = "start"
    /\ runPc' = "spawn"
    /\ IF initialMessage = ""
       THEN LET m == Msg(MessageTypeSystemInfo, "Chat with Tiny Trae (use CTRL+C to exit)",
                         FALSE, "", 0, "", FALSE)
            IN  /\ sending' = m
                /\ trace' = Append(trace, EvSend(m))
       ELSE UNCHANGED <<sending, trace>>
    /\ UNCHANGED <<cfgVars, call, hostVars, runResult, errorChan, coreVars, gwVars, stdout, uiVars>>

\* errorChan := make(chan error, 1); go func() { errorChan <- a.runCore(...) }()
Run_Go ==
    /\ runPc = "spawn"
    /\ sending = NoMsg
    /\ runPc' = "select"
    /\ corePc' = "start"
    /\ UNCHANGED <<cfgVars, call, hostVars, runResult, errorChan, retVal, conversation, readUserInput,
                   message, idx, toolResults, sending, gwVars, trace, stdout, uiVars>>

\* Run's select, case err := <-errorChan
Run_Recv ==
    /\ runPc = "select"
    /\ errorChan # <<>>
    /\ runResult' = Head(errorChan)
    /\ errorChan' = Tail(errorChan)
    /\ runPc' = "returned"
    /\ UNCHANGED <<cfgVars, call, hostVars, coreVars, sending, gwVars, trace, stdout, uiVars>>

\* ------------------------------------------------------------- runCore
\* runCore before its loop
Core_Start ==
    /\ corePc = "start"
    /\ corePc' = "loop"
    /\ readUserInput' = (initialMessage = "")
    /\ IF initialMessage # ""
       THEN LET m == Msg(MessageTypeUserInput, initialMessage, FALSE, "", 0, "", FALSE)
            IN  /\ conversation' = Append(conversation,
                                          NewUserMessage(<<NewTextBlock(initialMessage)>>))
                /\ sending' = m
                /\ trace' = trace \o <<Ev("append", "user_text", 0, "", initialMessage,
                                          FALSE, Len(conversation) + 1),
                                       EvSend(m)>>
       ELSE UNCHANGED <<conversation, sending, trace>>
    /\ UNCHANGED <<cfgVars, call, hostVars, runVars, retVal, message, idx, toolResults, gwVars, stdout, uiVars>>

\* mutant of LoopTarget: input is solicited at the top of every iteration
LoopTarget_AlwaysInput(rui) == "getInput"

\* where the loop goes from its top: to GetUserInput or to the model call
LoopTarget(rui) == IF rui THEN "getInput" ELSE "infer"

\* mutant of CtxSelect: the loop never looks at the context
CtxSelect_AlwaysDefault(cancelled) == "default"

\* the case taken by `select { case <-ctx.Done(): ...; default: }` at the top
\* of the loop
CtxSelect(cancelled) == IF cancelled THEN "ctxDone" ELSE "default"

\* top of the loop, the context is not done: `if readUserInput` then
\* GetUserInput is called, else runInference
Core_Loop ==
    /\ corePc = "loop"
    /\ sending = NoMsg
    /\ CtxSelect(ctxDone) = "default"
    /\ corePc' = LoopTarget(readUserInput)
    /\ trace' = IF LoopTarget(readUserInput) = "getInput"
                 THEN Append(trace, Ev("get_input", "", 0, "", "", FALSE, Len(conversation)))
                 ELSE trace
    /\ UNCHANGED <<cfgVars, call, hostVars, runVars, retVal, conversation, readUserInput, message, idx,
                   toolResults, sending, gwVars, stdout, uiVars>>

\* GetUserInput returned (userInput, true): the user turn and its Message
GotInput(userInput) ==
    LET m == Msg(MessageTypeUserInput, userInput, FALSE, "", 0, "", FALSE)
    IN  /\ conversation' = Append(conversation, NewUserMessage(<<NewTextBlock(userInput)>>))
        /\ sending' = m
        /\ corePc' = "infer"
        /\ trace' = trace \o <<Ev("input", "", 0, "", userInput, FALSE, 0),
                               Ev("append", "user_text", 0, "", userInput, FALSE,
                                  Len(conversation) + 1),
                               EvSend(m)>>
        /\ UNCHANGED <<retVal, readUserInput, message, idx, toolResults>>

\* mutant of NoMoreInput: the end of input is returned as an error
NoMoreInput_AsError ==
    /\ corePc' = "return"
    /\ retVal' = "EOF"
    /\ trace' = Append(trace, Ev("eof", "", 0, "", "", FALSE, 0))
    /\ UNCHANGED <<conversation, readUserInput, message, idx, toolResults, sending>>

\* GetUserInput returned ("", false): break, return nil
NoMoreInput ==
    /\ corePc' = "return"
    /\ retVal' = Nil
    /\ trace' = Append(trace, Ev("eof", "", 0, "", "", FALSE, 0))
    /\ UNCHANGED <<conversation, readUserInput, message, idx, toolResults, sending>>


\* the conversation turn kinds, for the history
LastKind(conv) ==
    IF conv = <<>> THEN "empty"
    ELSE IF IsAssistantTurn(Last(conv)) THEN "assistant"
    ELSE IF IsToolResultsTurn(Last(conv)) THEN "tool_results"
    ELSE "user_text"

\* mutants of AfterFailure: the failure always ends the loop; it never does
AfterFailure_AlwaysReturn(isInteractive) == "return"
AfterFailure_AlwaysContinue(isInteractive) == "loop"

\* mutant of AfterFailure: the two modes are taken for each other
AfterFailure_Inverted(isInteractive) == IF isInteractive THEN "return" ELSE "loop"

\* where runCore goes after a failed model call
AfterFailure(isInteractive) == IF isInteractive THEN "loop" ELSE "return"

\* runInference returned an error: the error Message, then continue
\* (interactive) or return err
Infer_Fail ==
    /\ corePc = "infer"
    /\ sending = NoMsg
    /\ modelCalls < MaxModelCalls
    /\ modelCalls' = modelCalls + 1
    /\ LET m == Msg(MessageTypeError, "LLM request failed: " \o LLMError,
                    FALSE, "", 0, "", FALSE)
       IN  /\ sending' = m
           /\ trace' = trace \o <<Ev("model_call", LastKind(conversation), 0, "", "",
                                     FALSE, Len(conversation)),
                                  Ev("model_fail", "", 0, "", LLMError, FALSE, 0),
                                  EvSend(m)>>
    /\ corePc' = AfterFailure(interactive)
    /\ IF AfterFailure(interactive) = "loop"
       THEN readUserInput' = TRUE /\ UNCHANGED retVal
       ELSE retVal' = LLMError /\ UNCHANGED readUserInput
    /\ UNCHANGED <<cfgVars, call, hostVars, runVars, conversation, message, idx, toolResults,
                   itemsUsed, nextId, stdout, uiVars>>

\* runInference returned a message (a call whose context is cancelled returns
\* an error instead): it is appended, the range loop starts.  The gateway has
\* `budget` content items to give over the run.
InferOK(budget) ==
    /\ corePc = "infer"
    /\ sending = NoMsg
    /\ modelCalls < MaxModelCalls
    /\ ~ctxDone
    /\ \E ks \in KindSeqs(budget - itemsUsed) :
         LET content == ResponseContent(ks, nextId)
         IN  /\ message' = content
             /\ conversation' = Append(conversation, ToParam(content))
             /\ itemsUsed' = itemsUsed + Len(ks)
             /\ nextId' = nextId + Len(SelectBlocks(content, "tool_use"))
             /\ trace' = trace \o <<Ev("model_call", LastKind(conversation), 0, "", "",
                                       FALSE, Len(conversation)),
                                    Ev("model_ok", "", 0, "", "", FALSE,
                                       Len(SelectBlocks(content, "tool_use"))),
                                    Ev("append", "assistant", 0, "", "", FALSE,
                                       Len(conversation) + 1)>>
    /\ modelCalls' = modelCalls + 1
    /\ idx' = 1
    /\ toolResults' = <<>>
    /\ corePc' = "content"
    /\ UNCHANGED <<cfgVars, call, hostVars, runVars, retVal, readUserInput, sending, stdout, uiVars>>

Infer_OK == InferOK(MaxItems)

Infer_OK_Long == InferOK(MaxLongItems)

\* mutant of TextItemMessage: the text item is shown as system information
TextItemMessage_AsInfo(item) ==
    Msg(MessageTypeSystemInfo, item.text, FALSE, "", 0, "", FALSE)

\* the assistant Message runCore sends for a text content item
TextItemMessage(item) ==
    Msg(MessageTypeAssistant, item.text, FALSE, "", 0, "", FALSE)

\* one iteration of `for _, content := range message.Content` on a text item
Content_Text ==
    /\ corePc = "content"
    /\ sending = NoMsg
    /\ idx <= Len(message)
    /\ message[idx].type = "text"
    /\ LET m == TextItemMessage(message[idx])
       IN  /\ sending' = m
           /\ trace' = Append(trace, EvSend(m))
    /\ idx' = idx + 1
    /\ UNCHANGED <<cfgVars, call, hostVars, runVars, corePc, retVal, conversation, readUserInput, message,
                   toolResults, gwVars, stdout, uiVars>>

\* a tool_use item, executeTool finds no catalog entry: tool_result Message,
\* error block
Content_ToolNotFound ==
    /\ corePc = "content"
    /\ sending = NoMsg
    /\ idx <= Len(message)
    /\ message[idx].type = "tool_use"
    /\ ~Found(message[idx].name)
    /\ LET id   == message[idx].id
           name == message[idx].name
           m    == NotFoundMessage(name, id)
           blk  == NotFoundBlock(id)
       IN  /\ sending' = m
           /\ toolResults' = Append(toolResults, blk)
           /\ trace' = trace \o <<Ev("exec", "", id, name, "", FALSE, 0),
                                  EvSend(m),
                                  Ev("ret", "", blk.id, name, blk.text, blk.is_error, 0)>>
    /\ idx' = idx + 1
    /\ UNCHANGED <<cfgVars, call, hostVars, runVars, corePc, retVal, conversation, readUserInput, message,
                   gwVars, stdout, uiVars>>

\* a tool_use item, executeTool finds the tool: tool_call Message, then the
\* function is called
Content_ToolCall ==
    /\ corePc = "content"
    /\ sending = NoMsg
    /\ idx <= Len(message)
    /\ message[idx].type = "tool_use"
    /\ Found(message[idx].name)
    /\ LET id   == message[idx].id
           name == message[idx].name
           m    == ToolCallMessage(name, id)
       IN  /\ sending' = m
           /\ trace' = trace \o <<Ev("exec", "", id, name, "", FALSE, 0), EvSend(m)>>
    /\ corePc' = "toolFn"
    /\ UNCHANGED <<cfgVars, call, hostVars, runVars, retVal, conversation, readUserInput, message, idx,
                   toolResults, gwVars, stdout, uiVars>>

\* toolDef.Function(input) runs and returns (response, err); the tool_result
\* Message; executeTool returns its block
Tool_Function ==
    /\ corePc = "toolFn"
    /\ sending = NoMsg
    /\ \E out \in {<<ToolOutput, Nil>>, <<"", ToolError>>} :
         LET id   == message[idx].id
             name == message[idx].name
             m    == ToolResultMessage(name, id, out[1], out[2])
             blk  == ExecuteToolBlock(name, id, out[1], out[2])
         IN  /\ sending' = m
             /\ toolResults' = Append(toolResults, blk)
             /\ trace' = trace \o <<Ev("fn", "", id, name, out[2], out[2] # Nil, 0),
                                    EvSend(m),
                                    Ev("ret", "", blk.id, name, blk.text, blk.is_error, 0)>>
    /\ idx' = idx + 1
    /\ corePc' = "content"
    /\ UNCHANGED <<cfgVars, call, hostVars, runVars, retVal, conversation, readUserInput, message,
                   gwVars, stdout, uiVars>>

\* mutant of AfterContent: input is read again also when not interactive
AfterContent_AlwaysRead(results, isInteractive) ==
    IF Len(results) = 0 THEN "readInput" ELSE "toolResults"

\* mutant of AfterContent: the tool-results turn is appended also when empty
AfterContent_AlwaysAppend(results, isInteractive) == "toolResults"

\* where runCore goes after the range loop
AfterContent(results, isInteractive) ==
    IF Len(results) = 0
    THEN IF isInteractive THEN "readInput" ELSE "return"
    ELSE "toolResults"

\* mutant of ReadUserInputAfter: input is read after every turn
ReadUserInputAfter_Always(results) == TRUE

\* readUserInput as the end of the iteration sets it: true after a turn
\* without tool results, false after the tool-results turn was appended
ReadUserInputAfter(results) == Len(results) = 0

\* after the range loop: no tool was used (read input again, or return nil),
\* or the tool-results turn is appended and the model is called again
Core_AfterContent ==
    /\ corePc = "content"
    /\ sending = NoMsg
    /\ idx > Len(message)
    /\ LET next == AfterContent(toolResults, interactive)
       IN  \/ /\ next = "readInput"
              /\ readUserInput' = TRUE
              /\ corePc' = "loop"
              /\ UNCHANGED <<retVal, conversation, trace>>
           \/ /\ next = "return"
              /\ retVal' = Nil
              /\ corePc' = "return"
              /\ UNCHANGED <<readUserInput, conversation, trace>>
           \/ /\ next = "toolResults"
              /\ conversation' = Append(conversation, NewUserMessage(toolResults))
              /\ readUserInput' = ReadUserInputAfter(toolResults)
              /\ corePc' = "loop"
              /\ trace' = Append(trace, Ev("append", "tool_results", 0, "", "", FALSE,
                                           Len(conversation) + 1))
              /\ UNCHANGED retVal
    /\ UNCHANGED <<cfgVars, call, hostVars, runVars, message, idx, toolResults, sending, gwVars, stdout, uiVars>>


\* mutant of Core_Return: the goroutine sends its result and is back at the
\* send
Core_Return_Stays ==
    /\ corePc = "return"
    /\ sending = NoMsg
    /\ Len(errorChan) < 1
    /\ errorChan' = Append(errorChan, retVal)
    /\ trace' = Append(trace, Ev("return", "", 0, "", retVal, retVal # Nil, 0))
    /\ UNCHANGED <<cfgVars, call, hostVars, runPc, runResult, corePc, retVal, conversation,
                   readUserInput, message, idx, toolResults, sending, gwVars, stdout, uiVars>>

\* runCore returns: the goroutine's `errorChan <- ...` (capacity 1, one send)
Core_Return ==
    /\ corePc = "return"
    /\ sending = NoMsg
    /\ Len(errorChan) < 1
    /\ errorChan' = Append(errorChan, retVal)
    /\ corePc' = "done"
    /\ trace' = Append(trace, Ev("return", "", 0, "", retVal, retVal # Nil, 0))
    /\ UNCHANGED <<cfgVars, call, hostVars, runPc, runResult, retVal, conversation, readUserInput, message,
                   idx, toolResults, sending, gwVars, stdout, uiVars>>


\* ------------------------------------------------------- ConsoleFrontend
\* mutant of ConsoleLines: an error Message prints nothing
ConsoleLines_DropsError(m, isInteractive) ==
    CASE m.type = MessageTypeAssistant ->
            IF isInteractive THEN <<"Trae: " \o m.content>> ELSE <<m.content>>
      [] m.type = MessageTypeSystemInfo -> <<m.content>>
      [] OTHER -> <<>>

\* what ConsoleFrontend.SendMessage prints for a Message (nothing: <<>>)
ConsoleLines(m, isInteractive) ==
    CASE m.type = MessageTypeUserInput -> <<>>
      [] m.type = MessageTypeAssistant ->
            IF isInteractive THEN <<"Trae: " \o m.content>> ELSE <<m.content>>
      [] m.type = MessageTypeToolCall ->
            IF isInteractive /\ m.has_data THEN <<"Tool: " \o m.tool_name>> ELSE <<>>
      [] m.type = MessageTypeToolResult ->
            IF m.has_data /\ isInteractive
            THEN IF m.is_error
                 THEN <<"Tool Error (" \o m.tool_name \o "): " \o m.result>>
                 ELSE <<"Tool Result (" \o m.tool_name \o "): " \o m.result>>
            ELSE <<>>
      [] m.type = MessageTypeError -> <<"Error: " \o m.content>>
      [] m.type = MessageTypeSystemInfo -> <<m.content>>
      [] OTHER -> <<>>

\* ConsoleFrontend.SendMessage
Console_SendMessage ==
    /\ frontend = "console"
    /\ sending # NoMsg
    /\ stdout' = stdout \o ConsoleLines(sending, interactive)
    /\ sending' = NoMsg
    /\ UNCHANGED <<cfgVars, call, hostVars, runVars, coreVars, gwVars, trace, uiVars>>

\* ConsoleFrontend.GetUserInput: not interactive, or the scanner is at the end
\* of standard input
Console_GetUserInput_EOF ==
    /\ frontend = "console"
    /\ corePc = "getInput"
    /\ stdout' = IF interactive THEN Append(stdout, "You: ") ELSE stdout
    /\ NoMoreInput
    /\ UNCHANGED <<cfgVars, call, hostVars, runVars, gwVars, uiVars>>

\* ConsoleFrontend.GetUserInput: the scanner reads a line
Console_GetUserInput_Line ==
    /\ frontend = "console"
    /\ corePc = "getInput"
    /\ interactive
    /\ stdout' = Append(stdout, "You: ")
    /\ GotInput(UserText)
    /\ UNCHANGED <<cfgVars, call, hostVars, runVars, gwVars, uiVars>>

\* ----------------------------------------------- TUIFrontend, not interactive
\* what TUIFrontend.SendMessage prints when it falls back to stdout
TUIFallbackLines(m) ==
    CASE m.type = MessageTypeAssistant -> <<"Trae: " \o m.content>>
      [] m.type = MessageTypeError -> <<"Error: " \o m.content>>
      [] m.type = MessageTypeSystemInfo -> <<m.content>>
      [] OTHER -> <<>>

\* TUIFrontend.SendMessage, else branch
TUI_SendMessage_Fallback ==
    /\ frontend = "tui"
    /\ ~interactive
    /\ sending # NoMsg
    /\ stdout' = stdout \o TUIFallbackLines(sending)
    /\ sending' = NoMsg
    /\ UNCHANGED <<cfgVars, call, hostVars, runVars, coreVars, gwVars, trace, uiVars>>

\* TUIFrontend.GetUserInput, `if !t.interactive { return "", false }`
TUI_GetUserInput_NotInteractive ==
    /\ frontend = "tui"
    /\ ~interactive
    /\ corePc = "getInput"
    /\ NoMoreInput
    /\ UNCHANGED <<cfgVars, call, hostVars, runVars, gwVars, stdout, uiVars>>

\* --------------------------------------------------- TUIFrontend, interactive
\* The tea.Program (bubbletea) runs Update on one goroutine, one event at a
\* time.  program.Send hands an event to that goroutine over an unbuffered
\* channel: it returns when the event loop takes the event, or at once when
\* the program has finished.

\* the frames the spinner cycles through (their number does not matter here)
SpinnerFrames == 2
\* the window sizes a tea.WindowSizeMsg carries
Sizes == {<<100, 30>>}

\* the tuiModel NewTUIFrontend builds
NewTuiModel ==
    [messages |-> <<>>, waitingForInput |-> FALSE, waitingForResponse |-> FALSE,
     processingTool |-> FALSE, currentToolName |-> "", textInput |-> "",
     width |-> 80, height |-> 24, viewportWidth |-> 80, viewportHeight |-> 20,
     inputWidth |-> 72, wrapWidth |-> 80, frame |-> 0]

\* tuiModel.addMessage: the line appended to the message log (without its
\* timestamp, its styling and the line breaks of wrapText)
FormatMessage(msg) ==
    CASE msg.type = MessageTypeUserInput -> "You: " \o msg.content
      [] msg.type = MessageTypeAssistant -> "Trae: " \o msg.content
      [] msg.type = MessageTypeToolCall ->
            IF msg.has_data THEN "Tool: Executing " \o msg.tool_name
            ELSE "Tool: " \o msg.content
      [] msg.type = MessageTypeToolResult ->
            IF msg.has_data
            THEN IF msg.is_error
                 THEN "Error " \o msg.tool_name \o ": " \o msg.result
                 ELSE "Result " \o msg.tool_name \o ": " \o msg.result
            ELSE "Result: " \o msg.content
      [] msg.type = MessageTypeError -> "Error: " \o msg.content
      [] msg.type = MessageTypeSystemInfo -> "System: " \o msg.content
      [] OTHER -> msg.content

\* mutant of UpdateMessageReceived: the line is put in front of the log
UpdateMessageReceived_Prepend(m, msg) ==
    [m EXCEPT !.messages = <<FormatMessage(msg)>> \o @]

\* mutant of UpdateMessageReceived: an error Message leaves the log alone
UpdateMessageReceived_SkipError(m, msg) ==
    IF msg.type = MessageTypeError THEN m
    ELSE [m EXCEPT !.messages = Append(@, FormatMessage(msg))]

\* mutant of UpdateMessageReceived: an error Message ends the wait for the
\* response
UpdateMessageReceived_ErrorEndsWait(m, msg) ==
    LET m1 == [m EXCEPT !.messages = Append(@, FormatMessage(msg))]
    IN  CASE msg.type = MessageTypeToolCall ->
               [m1 EXCEPT !.processingTool = TRUE,
                          !.currentToolName = IF msg.has_data THEN msg.tool_name ELSE @]
          [] msg.type = MessageTypeToolResult ->
               [m1 EXCEPT !.processingTool = FALSE, !.currentToolName = ""]
          [] msg.type \in {MessageTypeAssistant, MessageTypeError} ->
               [m1 EXCEPT !.waitingForResponse = FALSE, !.waitingForInput = TRUE]
          [] OTHER -> m1

\* Update, case messageReceivedMsg
UpdateMessageReceived(m, msg) ==
    LET m1 == [m EXCEPT !.messages = Append(@, FormatMessage(msg))]
    IN  CASE msg.type = MessageTypeToolCall ->
               [m1 EXCEPT !.processingTool = TRUE,
                          !.currentToolName = IF msg.has_data THEN msg.tool_name ELSE @]
          [] msg.type = MessageTypeToolResult ->
               [m1 EXCEPT !.processingTool = FALSE, !.currentToolName = ""]
          [] msg.type = MessageTypeAssistant ->
               [m1 EXCEPT !.waitingForResponse = FALSE, !.waitingForInput = TRUE]
          [] OTHER -> m1

\* mutant of UpdateInputRequest: the field keeps its residual content
UpdateInputRequest_KeepsBuffer(m) ==
    [m EXCEPT !.waitingForInput = TRUE, !.waitingForResponse = FALSE]

\* mutant of UpdateInputRequest: the wait for the response is not ended
UpdateInputRequest_KeepsAwaiting(m) ==
    [m EXCEPT !.waitingForInput = TRUE, !.textInput = ""]

\* Update, case inputRequestMsg
UpdateInputRequest(m) ==
    [m EXCEPT !.waitingForInput = TRUE, !.waitingForResponse = FALSE, !.textInput = ""]

\* mutant of UpdateWindowSize: the log is dropped for the new width
UpdateWindowSize_ClearsLog(m, w, h) ==
    [m EXCEPT !.width = w, !.height = h, !.messages = <<>>,
              !.viewportWidth = w, !.viewportHeight = h - 4,
              !.inputWidth = IF w > 8 THEN w - 8 ELSE @,
              !.wrapWidth = IF w > 20 THEN w - 10 ELSE @]

\* Update, case tea.WindowSizeMsg (the renderer exists and is rebuilt)
UpdateWindowSize(m, w, h) ==
    [m EXCEPT !.width = w, !.height = h,
              !.viewportWidth = w, !.viewportHeight = h - 4,
              !.inputWidth = IF w > 8 THEN w - 8 ELSE @,
              !.wrapWidth = IF w > 20 THEN w - 10 ELSE @]

\* mutant of UpdateTick: the spinner stays on its frame
UpdateTick_Stays(m) == m

\* Update, case spinner.TickMsg: spinner.Update moves to the next frame
UpdateTick(m) == [m EXCEPT !.frame = (@ + 1) % SpinnerFrames]

\* the condition under which Update hands keys to the input field
AcceptsKeys(m) == m.waitingForInput /\ ~m.waitingForResponse /\ ~m.processingTool

\* mutant of UpdateEnter: the field keeps its value
UpdateEnter_KeepsBuffer(m) ==
    [m EXCEPT !.waitingForInput = FALSE, !.waitingForResponse = TRUE]

\* Update, case tea.KeyMsg "enter" with a non-empty field, after the send on
\* inputCh
UpdateEnter(m) ==
    [m EXCEPT !.textInput = "", !.waitingForInput = FALSE, !.waitingForResponse = TRUE]

\* the event loop is taking events
ProgramRuns == uiPc = "running"
\* the event loop has ended: program.Send returns without delivering
ProgramOver == uiPc \in {"quit", "finished"}

\* TUIFrontend.SendMessage, program.Send(messageReceivedMsg{msg}): the event
\* loop takes the event and runs Update on it
TUI_SendMessage ==
    /\ frontend = "tui"
    /\ interactive
    /\ sending # NoMsg
    /\ ProgramRuns
    /\ ui' = UpdateMessageReceived(ui, sending)
    /\ tickPending' = IF sending.type = MessageTypeToolCall THEN TRUE ELSE tickPending
    /\ sending' = NoMsg
    /\ UNCHANGED <<cfgVars, call, hostVars, runVars, coreVars, gwVars, trace, stdout,
                   uiPc, inputCh, done, quitPending>>

\* program.Send after the program has finished returns without delivering
TUI_SendMessage_Finished ==
    /\ frontend = "tui"
    /\ interactive
    /\ sending # NoMsg
    /\ ProgramOver
    /\ sending' = NoMsg
    /\ UNCHANGED <<cfgVars, call, hostVars, runVars, coreVars, gwVars, trace, stdout, uiVars>>

\* TUIFrontend.GetUserInput, program.Send(inputRequestMsg{})
TUI_GetUserInput_Request ==
    /\ frontend = "tui"
    /\ interactive
    /\ corePc = "getInput"
    /\ ProgramRuns \/ ProgramOver
    /\ ui' = IF ProgramRuns THEN UpdateInputRequest(ui) ELSE ui
    /\ corePc' = "waitInput"
    /\ UNCHANGED <<cfgVars, call, hostVars, runVars, retVal, conversation, readUserInput, message,
                   idx, toolResults, sending, gwVars, trace, stdout,
                   uiPc, inputCh, done, quitPending, tickPending>>

\* TUIFrontend.GetUserInput, select case input := <-t.inputCh
TUI_GetUserInput_Input ==
    /\ corePc = "waitInput"
    /\ inputCh # <<>>
    /\ GotInput(Head(inputCh))
    /\ inputCh' = Tail(inputCh)
    /\ UNCHANGED <<cfgVars, call, hostVars, runVars, gwVars, stdout, uiPc, ui, done, quitPending,
                   tickPending>>

\* TUIFrontend.GetUserInput, select case <-t.done
TUI_GetUserInput_Done ==
    /\ corePc = "waitInput"
    /\ done # <<>>
    /\ done' = Tail(done)
    /\ NoMoreInput
    /\ UNCHANGED <<cfgVars, call, hostVars, runVars, gwVars, stdout, uiPc, ui, inputCh,
                   quitPending, tickPending>>

\* Update, case tea.KeyMsg, a key other than enter and ctrl+c while the field
\* accepts keys: textInput.Update inserts it (also the 'q' key)
UI_KeyRune ==
    /\ ProgramRuns
    /\ AcceptsKeys(ui)
    /\ (ui.textInput \o "q") \in FieldTexts
    /\ ui' = [ui EXCEPT !.textInput = @ \o "q"]
    /\ UNCHANGED <<cfgVars, call, hostVars, runVars, coreVars, sending, gwVars, trace, stdout,
                   uiPc, inputCh, done, quitPending, tickPending>>

\* Update, case tea.KeyMsg "enter" while the field accepts keys: a non-empty
\* value is sent on inputCh (the send blocks while the slot is taken)
UI_KeyEnter ==
    /\ ProgramRuns
    /\ AcceptsKeys(ui)
    /\ IF ui.textInput = ""
       THEN UNCHANGED <<ui, inputCh, uiPc, tickPending>>
       ELSE IF Len(inputCh) < 1
            THEN /\ inputCh' = Append(inputCh, ui.textInput)
                 /\ ui' = UpdateEnter(ui)
                 /\ tickPending' = TRUE
                 /\ UNCHANGED uiPc
            ELSE /\ uiPc' = "blocked"
                 /\ UNCHANGED <<ui, inputCh, tickPending>>
    /\ UNCHANGED <<cfgVars, call, hostVars, runVars, coreVars, sending, gwVars, trace, stdout,
                   done, quitPending>>

\* the blocked `m.inputCh <- input` completes, Update goes on
UI_EnterUnblock ==
    /\ uiPc = "blocked"
    /\ Len(inputCh) < 1
    /\ inputCh' = Append(inputCh, ui.textInput)
    /\ ui' = UpdateEnter(ui)
    /\ tickPending' = TRUE
    /\ uiPc' = "running"
    /\ UNCHANGED <<cfgVars, call, hostVars, runVars, coreVars, sending, gwVars, trace, stdout,
                   done, quitPending>>

\* mutant of UpdateKeyIgnored: the key is typed into the field
UpdateKeyIgnored_Types(m) == [m EXCEPT !.textInput = "q"]

\* Update, case tea.KeyMsg in the else branch with a key that is neither
\* ctrl+c nor q: no case matches, the model is returned as it is
UpdateKeyIgnored(m) == m

\* Update, case tea.KeyMsg: enter or an ordinary key other than q while the
\* field does not accept keys
UI_KeyOther ==
    /\ ProgramRuns
    /\ ~AcceptsKeys(ui)
    /\ ui' = UpdateKeyIgnored(ui)
    /\ UNCHANGED <<cfgVars, call, hostVars, runVars, coreVars, sending, gwVars, trace, stdout,
                   uiPc, inputCh, done, quitPending, tickPending>>

\* Update, case tea.KeyMsg "q" while the field does not accept keys:
\* return m, tea.Quit
UI_KeyQuit ==
    /\ ProgramRuns
    /\ ~AcceptsKeys(ui)
    /\ ~quitPending
    /\ quitPending' = TRUE
    /\ UNCHANGED <<cfgVars, call, hostVars, runVars, coreVars, sending, gwVars, trace, stdout,
                   uiPc, ui, inputCh, done, tickPending>>

\* Update, case tea.KeyMsg "ctrl+c": os.Exit(0) ends the process; nothing of
\* its state is left
UI_KeyCtrlC ==
    /\ ProgramRuns
    /\ uiPc' = "exited"
    /\ corePc' = "exited"
    /\ runPc' = "exited"
    /\ closePc' = "exited"
    /\ runResult' = "none"
    /\ errorChan' = <<>>
    /\ retVal' = Nil
    /\ conversation' = <<>>
    /\ readUserInput' = FALSE
    /\ message' = <<>>
    /\ idx' = 1
    /\ toolResults' = <<>>
    /\ sending' = NoMsg
    /\ trace' = <<>>
    /\ stdout' = <<>>
    /\ ui' = NewTuiModel
    /\ inputCh' = <<>>
    /\ done' = <<>>
    /\ quitPending' = FALSE
    /\ tickPending' = FALSE
    /\ ctxDone' = FALSE
    /\ cancelAt' = "none"
    /\ closeCalls' = 0
    /\ closeAt' = <<"none", "none">>
    /\ UNCHANGED <<cfgVars, call, gwVars>>

\* the event loop ends and program.Run returns to TUIFrontend.run, which
\* drops the final model
ProgramEnds ==
    /\ uiPc' = "quit"
    /\ ui' = NewTuiModel
    /\ quitPending' = FALSE
    /\ tickPending' = FALSE

\* the event loop takes the QuitMsg of a tea.Quit command
UI_QuitMsg ==
    /\ ProgramRuns
    /\ quitPending
    /\ ProgramEnds
    /\ UNCHANGED <<cfgVars, call, hostVars, runVars, coreVars, sending, gwVars, trace, stdout,
                   inputCh, done>>

\* mutant of TUI_RunDone: run stays where it is and sends again
TUI_RunDone_Again ==
    /\ uiPc = "quit"
    /\ Len(done) < 1
    /\ done' = Append(done, TRUE)
    /\ UNCHANGED <<cfgVars, call, hostVars, runVars, coreVars, sending, gwVars, trace, stdout,
                   uiPc, ui, inputCh, quitPending, tickPending>>

\* TUIFrontend.run after program.Run returned: t.done <- true
TUI_RunDone ==
    /\ uiPc = "quit"
    /\ Len(done) < 1
    /\ done' = Append(done, TRUE)
    /\ uiPc' = "finished"
    /\ UNCHANGED <<cfgVars, call, hostVars, runVars, coreVars, sending, gwVars, trace, stdout,
                   ui, inputCh, quitPending, tickPending>>

\* Update, case tea.WindowSizeMsg
UI_WindowSize ==
    /\ ProgramRuns
    /\ \E size \in Sizes : ui' = UpdateWindowSize(ui, size[1], size[2])
    /\ UNCHANGED <<cfgVars, call, hostVars, runVars, coreVars, sending, gwVars, trace, stdout,
                   uiPc, inputCh, done, quitPending, tickPending>>

\* Update, case spinner.TickMsg: the spinner moves on; the next tick is asked
\* for only while a response is awaited or a tool is running
UI_Tick ==
    /\ ProgramRuns
    /\ tickPending
    /\ ui' = UpdateTick(ui)
    /\ tickPending' = (ui.waitingForResponse \/ ui.processingTool)
    /\ UNCHANGED <<cfgVars, call, hostVars, runVars, coreVars, sending, gwVars, trace, stdout,
                   uiPc, inputCh, done, quitPending>>

\* ------------------------------------------------------- Frontend.Close
\* the times Close is called by the program hosting the agent
MaxCloseCalls == 2

\* the host (main's deferred call, or a program using the Frontend by itself)
\* calls Close
Host_Close ==
    /\ closePc \in {"idle", "returned"}
    /\ closeCalls < MaxCloseCalls
    /\ runPc # "exited"
    /\ closePc' = "called"
    /\ closeCalls' = closeCalls + 1
    /\ closeAt' = <<runPc, corePc>>
    /\ UNCHANGED <<cfgVars, call, ctxDone, cancelAt, runVars, coreVars, sending, gwVars, trace, stdout,
                   uiVars>>

\* ConsoleFrontend.Close: nothing to do
Console_Close ==
    /\ frontend = "console"
    /\ closePc = "called"
    /\ closePc' = "returned"
    /\ UNCHANGED <<cfgVars, call, ctxDone, cancelAt, closeCalls, closeAt, runVars, coreVars, sending,
                   gwVars, trace, stdout, uiVars>>

\* TUIFrontend.Close, `if t.interactive && t.program != nil` is false
TUI_Close_NotInteractive ==
    /\ frontend = "tui"
    /\ ~interactive
    /\ closePc = "called"
    /\ closePc' = "returned"
    /\ UNCHANGED <<cfgVars, call, ctxDone, cancelAt, closeCalls, closeAt, runVars, coreVars, sending,
                   gwVars, trace, stdout, uiVars>>

\* TUIFrontend.Close, t.program.Quit(): the event loop takes the QuitMsg and
\* ends; a program that is over takes nothing
TUI_Close_Quit ==
    /\ frontend = "tui"
    /\ interactive
    /\ closePc = "called"
    /\ ProgramRuns \/ ProgramOver
    /\ closePc' = "select"
    /\ IF ProgramRuns THEN ProgramEnds
       ELSE UNCHANGED <<uiPc, ui, quitPending, tickPending>>
    /\ UNCHANGED <<cfgVars, call, ctxDone, cancelAt, closeCalls, closeAt, runVars, coreVars, sending,
                   gwVars, trace, stdout, inputCh, done>>

\* TUIFrontend.Close, select { case <-t.done: ; default: ... }
TUI_Close_Select ==
    /\ closePc = "select"
    /\ IF done # <<>>
       THEN done' = Tail(done) /\ closePc' = "returned"
       ELSE closePc' = "waitDone" /\ UNCHANGED done
    /\ UNCHANGED <<cfgVars, call, ctxDone, cancelAt, closeCalls, closeAt, runVars, coreVars, sending,
                   gwVars, trace, stdout, uiPc, ui, inputCh, quitPending, tickPending>>

\* TUIFrontend.Close, the `<-t.done` of the default case
TUI_Close_WaitDone ==
    /\ closePc = "waitDone"
    /\ done # <<>>
    /\ done' = Tail(done)
    /\ closePc' = "returned"
    /\ UNCHANGED <<cfgVars, call, ctxDone, cancelAt, closeCalls, closeAt, runVars, coreVars, sending,
                   gwVars, trace, stdout, uiPc, ui, inputCh, quitPending, tickPending>>

\* ---------------------------------------------------------- cancellation
\* ctx.Err() of a cancelled context
CtxErr == "context canceled"

\* the owner of the context cancels it
Cancel ==
    /\ ~ctxDone
    /\ runPc # "exited"
    /\ ctxDone' = TRUE
    /\ cancelAt' = corePc
    /\ UNCHANGED <<cfgVars, call, closeVars, runVars, coreVars, sending, gwVars, trace, stdout,
                   uiVars>>

\* Run's select, case <-ctx.Done(): return ctx.Err()
Run_CtxDone ==
    /\ runPc = "select"
    /\ ctxDone
    /\ runResult' = CtxErr
    /\ runPc' = "returned"
    /\ UNCHANGED <<cfgVars, call, hostVars, errorChan, coreVars, sending, gwVars, trace, stdout,
                   uiVars>>

\* top of runCore's loop, select case <-ctx.Done(): return ctx.Err()
Core_CtxDone ==
    /\ corePc = "loop"
    /\ sending = NoMsg
    /\ CtxSelect(ctxDone) = "ctxDone"
    /\ retVal' = CtxErr
    /\ corePc' = "return"
    /\ trace' = Append(trace, Ev("ctx_done", "", 0, "", CtxErr, TRUE, 0))
    /\ UNCHANGED <<cfgVars, call, hostVars, runVars, conversation, readUserInput, message, idx,
                   toolResults, sending, gwVars, stdout, uiVars>>

\* ------------------------------------------------------------------ Spec
\* the program before Run is called
InitProgram ==
    /\ frontend \in {"console", "tui"}
    /\ interactive \in BOOLEAN
    /\ initialMessage \in {"", UserText}
    /\ runPc = "start"
    /\ runResult = "none"
    /\ errorChan = <<>>
    /\ corePc = "idle"
    /\ retVal = Nil
    /\ conversation = <<>>
    /\ readUserInput = FALSE
    /\ message = <<>>
    /\ idx = 1
    /\ toolResults = <<>>
    /\ sending = NoMsg
    /\ modelCalls = 0
    /\ itemsUsed = 0
    /\ nextId = 1
    /\ trace = <<>>
    /\ stdout = <<>>
    /\ uiPc = IF frontend = "tui" /\ interactive THEN "running" ELSE "off"
    /\ ui = NewTuiModel
    /\ inputCh = <<>>
    /\ done = <<>>
    /\ quitPending = FALSE
    /\ tickPending = FALSE
    /\ ctxDone = FALSE
    /\ cancelAt = "none"
    /\ closePc = "idle"
    /\ closeCalls = 0
    /\ closeAt = <<"none", "none">>

Init == InitProgram /\ call = NoCall

Next ==
    \/ Run_Start
    \/ Run_Go
    \/ Run_Recv
    \/ Core_Start
    \/ Core_Loop
    \/ Infer_Fail
    \/ Infer_OK
    \/ Content_Text
    \/ Content_ToolNotFound
    \/ Content_ToolCall
    \/ Tool_Function
    \/ Core_AfterContent
    \/ Core_Return
    \/ Console_SendMessage
    \/ Console_GetUserInput_EOF
    \/ Console_GetUserInput_Line
    \/ TUI_SendMessage_Fallback
    \/ TUI_GetUserInput_NotInteractive
    \/ TUI_SendMessage
    \/ TUI_SendMessage_Finished
    \/ TUI_GetUserInput_Request
    \/ TUI_GetUserInput_Input
    \/ TUI_GetUserInput_Done
    \/ UI_KeyRune
    \/ UI_KeyEnter
    \/ UI_EnterUnblock
    \/ UI_KeyQuit
    \/ UI_KeyOther
    \/ UI_KeyCtrlC
    \/ UI_QuitMsg
    \/ TUI_RunDone

Spec == Init /\ [][Next]_vars

\* the interactive TUI with the other events of the terminal: animation ticks
\* and window resizes
InitUI == Init /\ frontend = "tui" /\ interactive

NextUI ==
    \/ Run_Start
    \/ Run_Go
    \/ Run_Recv
    \/ Core_Start
    \/ Core_Loop
    \/ Infer_Fail
    \/ Infer_OK
    \/ Content_Text
    \/ Content_ToolNotFound
    \/ Content_ToolCall
    \/ Tool_Function
    \/ Core_AfterContent
    \/ Core_Return
    \/ TUI_SendMessage
    \/ TUI_SendMessage_Finished
    \/ TUI_GetUserInput_Request
    \/ TUI_GetUserInput_Input
    \/ TUI_GetUserInput_Done
    \/ UI_KeyRune
    \/ UI_KeyEnter
    \/ UI_EnterUnblock
    \/ UI_KeyQuit
    \/ UI_KeyOther
    \/ UI_KeyCtrlC
    \/ UI_QuitMsg
    \/ TUI_RunDone
    \/ UI_Tick
    \/ UI_WindowSize

SpecUI == InitUI /\ [][NextUI]_vars

\* the agent and its Frontend in a host that calls Close when it sees fit
\* (main defers it until Run has returned)
NextHost ==
    \/ Next
    \/ Host_Close
    \/ Console_Close
    \/ TUI_Close_NotInteractive
    \/ TUI_Close_Quit
    \/ TUI_Close_Select
    \/ TUI_Close_WaitDone

SpecHost == Init /\ [][NextHost]_vars

\* the agent on a ConsoleFrontend, run with a context its caller may cancel
InitCancel == Init /\ frontend = "console"

NextCancel ==
    \/ Run_Start
    \/ Run_Go
    \/ Run_Recv
    \/ Run_CtxDone
    \/ Core_Start
    \/ Core_Loop
    \/ Core_CtxDone
    \/ Infer_Fail
    \/ Infer_OK
    \/ Content_Text
    \/ Content_ToolNotFound
    \/ Content_ToolCall
    \/ Tool_Function
    \/ Core_AfterContent
    \/ Core_Return
    \/ Console_SendMessage
    \/ Console_GetUserInput_EOF
    \/ Console_GetUserInput_Line
    \/ Cancel

SpecCancel == InitCancel /\ [][NextCancel]_vars

\* the interactive TUI with a gateway that gives longer turns
NextLong ==
    \/ Run_Start
    \/ Run_Go
    \/ Run_Recv
    \/ Core_Start
    \/ Core_Loop
    \/ Infer_Fail
    \/ Infer_OK_Long
    \/ Content_Text
    \/ Content_ToolNotFound
    \/ Content_ToolCall
    \/ Tool_Function
    \/ Core_AfterContent
    \/ Core_Return
    \/ TUI_SendMessage
    \/ TUI_SendMessage_Finished
    \/ TUI_GetUserInput_Request
    \/ TUI_GetUserInput_Input
    \/ TUI_GetUserInput_Done
    \/ UI_KeyRune
    \/ UI_KeyEnter
    \/ UI_EnterUnblock
    \/ UI_KeyQuit
    \/ UI_KeyOther
    \/ UI_KeyCtrlC
    \/ UI_QuitMsg
    \/ TUI_RunDone

SpecLong == InitUI /\ [][NextLong]_vars


\* ------------------------------------------------------------- properties
\* positions of the history
Events == 1..Len(trace)
IsSend(e, type) == e.ev = "send" /\ e.type = type
\* the events at which runCore calls out or returns
ControlEvents == {"model_call", "get_input", "return"}
\* the first control event after position i (0 when there is none)
NextControl(i) ==
    LET later == {j \in Events : j > i /\ trace[j].ev \in ControlEvents}
    IN  IF later = {} THEN 0 ELSE CHOOSE j \in later : \A k \in later : j <= k

\* the results turn res answers the tool invocations of the assistant turn asst
ResultsMatch(asst, res) ==
    /\ IsToolResultsTurn(res)
    /\ Len(res.content) = Len(ToolUses(asst))
    /\ \A k \in 1..Len(res.content) :
         /\ res.content[k].type = "tool_result"
         /\ res.content[k].id = ToolUses(asst)[k].id

\* C1: an assistant turn with n >= 1 tool invocations is directly followed by
\* a tool-results turn of exactly n entries, the i-th carrying the identifier
\* of the i-th invocation; while it is still the last turn, runCore is
\* dispatching its tools and has collected the results of a prefix, in order.
C1_ResultsMatchInvocations ==
    \A i \in 1..Len(conversation) :
       (IsAssistantTurn(conversation[i]) /\ ToolUses(conversation[i]) # <<>>) =>
          IF i < Len(conversation)
          THEN ResultsMatch(conversation[i], conversation[i + 1])
          ELSE /\ corePc \in {"content", "toolFn"}
               /\ Len(toolResults) <= Len(ToolUses(conversation[i]))
               /\ \A k \in 1..Len(toolResults) :
                    toolResults[k].id = ToolUses(conversation[i])[k].id

\* C1 witness: a turn with two invocations, one of a registered and one of an
\* unregistered tool, has been answered
C1_Witness ==
    \E i \in 1..Len(conversation) :
       /\ i < Len(conversation)
       /\ IsAssistantTurn(conversation[i])
       /\ Len(ToolUses(conversation[i])) = 2
       /\ \E a, b \in 1..2 : /\ Found(ToolUses(conversation[i])[a].name)
                             /\ ~Found(ToolUses(conversation[i])[b].name)
       /\ IsToolResultsTurn(conversation[i + 1])

\* C2: a tool-results turn stands only directly after an assistant turn with
\* at least one tool invocation, and one is appended only after a successful
\* model response that asked for a tool (never after a user turn or after a
\* gateway failure).
C2_ResultsOnlyAfterInvocations ==
    /\ \A i \in 1..Len(conversation) :
          IsToolResultsTurn(conversation[i]) =>
             /\ i > 1
             /\ IsAssistantTurn(conversation[i - 1])
             /\ ToolUses(conversation[i - 1]) # <<>>
    /\ \A j \in Events :
          (trace[j].ev = "append" /\ trace[j].type = "tool_results") =>
             \E i \in 1..(j - 1) :
                /\ trace[i].ev = "model_ok"
                /\ trace[i].n >= 1
                /\ \A k \in (i + 1)..(j - 1) :
                      trace[k].ev \notin {"model_call", "model_fail", "get_input", "input"}

\* C2 witness: a conversation with a user turn and a tool-results turn, in a
\* run in which a model call failed
C2_Witness ==
    /\ \E i \in 1..Len(conversation) : IsToolResultsTurn(conversation[i])
    /\ \E i \in 1..Len(conversation) : IsUserTextTurn(conversation[i])
    /\ \E j \in Events : trace[j].ev = "model_fail"

\* C3: executeTool on an unregistered name sends the tool_result Message and
\* returns the block (id, "tool not found", is_error) without calling any
\* tool function, and what runCore does next is a model call, not a return
\* and not GetUserInput.
C3_NotFoundIsAResult ==
    \A i \in Events :
       (trace[i].ev = "exec" /\ ~Found(trace[i].name)) =>
          /\ trace[i + 2].ev = "ret"
          /\ trace[i + 2].id = trace[i].id
          /\ trace[i + 2].text = "tool not found"
          /\ trace[i + 2].is_error
          /\ \A j \in Events : trace[j].ev = "fn" => trace[j].id # trace[i].id
          /\ NextControl(i) # 0 => trace[NextControl(i)].ev = "model_call"

\* C3 witness: an unregistered tool was dispatched and the model was called
\* again
C3_Witness ==
    \E i \in Events :
       /\ trace[i].ev = "exec"
       /\ ~Found(trace[i].name)
       /\ NextControl(i) # 0


\* C4 (as claimed): when the tool function returns an error, the tool_result
\* Message has is_error and the block executeTool returns has is_error and the
\* error's message as its text, the function is not called again, and runCore
\* goes on to the next model call.
C4_ToolErrorIsErrorResult ==
    \A i \in Events :
       (trace[i].ev = "fn" /\ trace[i].is_error) =>
          /\ IsSend(trace[i + 1], MessageTypeToolResult)
          /\ trace[i + 1].is_error
          /\ trace[i + 2].ev = "ret"
          /\ trace[i + 2].id = trace[i].id
          /\ trace[i + 2].is_error
          /\ trace[i + 2].text = trace[i].text
          /\ \A j \in Events : (trace[j].ev = "fn" /\ trace[j].id = trace[i].id) => j = i
          /\ NextControl(i) # 0 => trace[NextControl(i)].ev = "model_call"

ToolRounds == {i \in Events : trace[i].ev = "model_ok" /\ trace[i].n >= 1}

\* C6: after an assistant turn with tool invocations the next call runCore
\* makes is the model call, never GetUserInput, and that model call is given
\* a conversation that ends with the tool-results turn.
C6_ModelSeesResultsFirst ==
    /\ \A i \in ToolRounds :
          NextControl(i) # 0 =>
             /\ trace[NextControl(i)].ev = "model_call"
             /\ trace[NextControl(i)].type = "tool_results"
             /\ \E a \in (i + 1)..(NextControl(i) - 1) :
                   /\ trace[a].ev = "append"
                   /\ trace[a].type = "tool_results"
                   /\ trace[a].n = trace[NextControl(i)].n
    /\ (corePc \in {"getInput", "waitInput"} /\ conversation # <<>>) =>
          ~(IsAssistantTurn(Last(conversation)) /\ ToolUses(Last(conversation)) # <<>>)
    /\ (corePc = "infer" /\ \E i \in ToolRounds : NextControl(i) = 0) =>
          IsToolResultsTurn(Last(conversation))

\* C6 witness: in an interactive run, a model call was made right after a
\* tool round
C6_Witness ==
    /\ interactive
    /\ \E i \in ToolRounds : NextControl(i) # 0


\* the history positions of a kind of event
EventsOf(ev) == {i \in Events : trace[i].ev = ev}
SendsOf(type) == {i \in Events : IsSend(trace[i], type)}

\* C7: not interactive, initial message given: once the model returns a turn
\* without tool invocation runCore only sends that turn's texts and returns
\* nil, Run returns nil, and GetUserInput is never called in the run.
C7_SingleShotEnds ==
    (~interactive /\ initialMessage # "") =>
       /\ EventsOf("get_input") = {}
       /\ \A i \in Events :
             (trace[i].ev = "model_ok" /\ trace[i].n = 0) =>
                /\ \A j \in Events :
                      j > i =>
                         \/ j = i + 1 /\ trace[j].ev = "append"
                         \/ j > i + 1 /\ IsSend(trace[j], MessageTypeAssistant)
                         \/ /\ j > i + 1
                            /\ j = Len(trace)
                            /\ trace[j].ev = "return"
                            /\ trace[j].text = Nil
                /\ corePc \in {"content", "return", "done"}
                /\ corePc = "return" => retVal = Nil
                /\ corePc = "done" => (errorChan = <<Nil>> \/ runResult = Nil)
                /\ runPc = "returned" => runResult = Nil

\* C7 witness: a single-shot run that went through a tool round has returned
\* nil
C7_Witness ==
    /\ ~interactive
    /\ initialMessage # ""
    /\ runPc = "returned"
    /\ runResult = Nil
    /\ ToolRounds # {}
    /\ \E i \in Events : trace[i].ev = "model_ok" /\ trace[i].n = 0

\* C8: interactive: a failed model call is followed by one error Message and
\* then by GetUserInput (runCore does not return); an input obtained is
\* appended as a user turn, announced, and sent to the model.
C8_FailureReturnsToInput ==
    interactive =>
       /\ \A i \in EventsOf("model_fail") :
             /\ IsSend(trace[i + 1], MessageTypeError)
             /\ i + 2 <= Len(trace) => trace[i + 2].ev = "get_input"
             /\ i + 1 = Len(trace) => (corePc = "loop" /\ readUserInput)
       /\ \A j \in EventsOf("input") :
             /\ trace[j - 1].ev = "get_input"
             /\ trace[j + 1].ev = "append"
             /\ trace[j + 1].type = "user_text"
             /\ trace[j + 1].n <= Len(conversation)
             /\ conversation[trace[j + 1].n] =
                   NewUserMessage(<<NewTextBlock(trace[j].text)>>)
             /\ IsSend(trace[j + 2], MessageTypeUserInput)
             /\ trace[j + 2].text = trace[j].text
             /\ j + 3 <= Len(trace) =>
                   /\ trace[j + 3].ev = "model_call"
                   /\ trace[j + 3].n = trace[j + 1].n
             /\ j + 2 = Len(trace) => corePc = "infer"

\* C8 witness: in the TUI, the first input's model call failed, a second
\* input was entered and answered by the model
C8_Witness ==
    /\ interactive
    /\ frontend = "tui"
    /\ \E i \in EventsOf("model_fail") :
          \E j \in EventsOf("input") :
             \E k \in EventsOf("model_ok") :
                /\ \E h \in EventsOf("input") : h < i
                /\ i < j
                /\ j < k

\* C9: not interactive: a failed model call is followed by exactly one error
\* Message and the return of that error, with no GetUserInput and no further
\* model call, and Run returns that error.
C9_FailureEndsSingleShot ==
    ~interactive =>
       \A i \in EventsOf("model_fail") :
          /\ SendsOf(MessageTypeError) = {i + 1}
          /\ \A j \in Events :
                j > i + 1 => /\ j = i + 2
                             /\ trace[j].ev = "return"
                             /\ trace[j].text = trace[i].text
          /\ corePc \in {"return", "done"}
          /\ retVal = trace[i].text
          /\ corePc = "done" => (errorChan = <<trace[i].text>> \/ runResult = trace[i].text)
          /\ runPc = "returned" => runResult = trace[i].text

\* C9 witness: a single-shot run whose second model call failed has returned
\* the error
C9_Witness ==
    /\ ~interactive
    /\ runPc = "returned"
    /\ runResult = LLMError
    /\ ToolRounds # {}

\* C10: when GetUserInput reports the end of input runCore returns nil, with
\* no model call, no turn appended and no Message sent after it; the
\* user_input Messages sent are as many as the user text turns appended.
C10_EndOfInputEndsQuietly ==
    /\ \A i \in EventsOf("eof") :
          /\ trace[i - 1].ev = "get_input"
          /\ \A j \in Events :
                j > i => /\ j = i + 1
                         /\ trace[j].ev = "return"
                         /\ trace[j].text = Nil
          /\ corePc \in {"return", "done"}
          /\ retVal = Nil
          /\ sending = NoMsg
          /\ runPc = "returned" => runResult = Nil
    /\ Cardinality(SendsOf(MessageTypeUserInput)) =
          Cardinality({k \in 1..Len(conversation) : IsUserTextTurn(conversation[k])})

\* C10 witness: an interactive session given one input and then the end of
\* input: one user_input Message, no error Message, Run returned nil
C10_Witness ==
    /\ interactive
    /\ initialMessage = ""
    /\ runPc = "returned"
    /\ runResult = Nil
    /\ EventsOf("eof") # {}
    /\ Cardinality(SendsOf(MessageTypeUserInput)) = 1
    /\ EventsOf("model_ok") # {}
    /\ SendsOf(MessageTypeError) = {}

\* the core goroutine is inside its loop or past it
CoreStarted == corePc \notin {"idle", "start", "exited"}
\* the text items of a content sequence
TextItems(content) == SelectBlocks(content, "text")

\* C11: with a non-empty initial message the conversation starts with that
\* message as its first user turn and the first thing runCore waits for is
\* a model call (GetUserInput is not called before it); without one the
\* conversation is empty when runCore first calls GetUserInput, and no model
\* call comes before that.
C11_InitialMessageDecidesStart ==
    CoreStarted =>
       LET first == NextControl(0)
       IN  IF initialMessage # ""
           THEN /\ Len(conversation) >= 1
                /\ conversation[1] = NewUserMessage(<<NewTextBlock(initialMessage)>>)
                /\ first # 0 => trace[first].ev = "model_call"
                /\ first = 0 => corePc \in {"loop", "infer"}
           ELSE /\ first # 0 => trace[first].ev = "get_input" /\ trace[first].n = 0
                /\ first = 0 => corePc = "loop" /\ conversation = <<>>

\* C11 witness: a run with an initial message in which the model was called
\* and input was asked for afterwards
C11_Witness ==
    /\ initialMessage # ""
    /\ \E i, j \in Events :
         /\ i < j
         /\ trace[i].ev = "model_call"
         /\ trace[j].ev = "get_input"

\* the assistant Messages sent for the assistant turn appended at history
\* position i, up to runCore's next call out
TextSends(i) ==
    LET nc == NextControl(i)
    IN  {j \in Events : /\ j > i
                        /\ nc # 0 => j < nc
                        /\ trace[j].ev = "send"
                        /\ trace[j].type \in {MessageTypeAssistant, MessageTypeSystemInfo}}
\* the content items of that turn the range loop has gone through
ItemsDone(i) ==
    LET content == conversation[trace[i].n].content
    IN  IF NextControl(i) = 0 /\ corePc \in {"content", "toolFn"}
        THEN SubSeq(content, 1, idx - 1)
        ELSE content

\* C12: for every successful model response runCore sends exactly one
\* assistant Message per text content item, in the items' order and with the
\* item's text, whether or not the response also holds tool invocations and
\* whether or not the surface is interactive.
C12_OneAssistantMessagePerText ==
    \A i \in Events :
       (trace[i].ev = "append" /\ trace[i].type = "assistant") =>
          LET texts == TextItems(ItemsDone(i))
              sends == TextSends(i)
          IN  /\ Cardinality(sends) = Len(texts)
              /\ \A j \in sends :
                   LET k == Cardinality({h \in sends : h <= j})
                   IN  /\ trace[j].type = MessageTypeAssistant
                       /\ k <= Len(texts)
                       /\ trace[j].text = texts[k].text

\* C12 witness: a surface that is not interactive has finished a run in which
\* a response held a text item next to a tool invocation, and the text was sent
C12_Witness ==
    /\ ~interactive
    /\ corePc = "done"
    /\ \E i \in Events :
         /\ trace[i].ev = "append" /\ trace[i].type = "assistant"
         /\ Len(TextItems(conversation[trace[i].n].content)) >= 1
         /\ Len(ToolUses(conversation[trace[i].n])) >= 1
         /\ TextSends(i) # {}

\* the Messages the core handed to SendMessage, in the order of the calls
Emitted == SelectSeq(trace, LAMBDA e : e.ev = "send")
\* the Message a history entry stands for
EvMsg(e) == Msg(e.type, e.text, e.n = 1, e.name, e.id, e.text, e.is_error)
\* the log line of the k-th SendMessage call
EmittedLine(k) == FormatMessage(EvMsg(Emitted[k]))
\* the event loop of the interactive TUI exists (it runs, or sits in a handler)
ProgramAlive == frontend = "tui" /\ interactive /\ uiPc \in {"running", "blocked"}

\* C13: the message log of the TUI holds the Messages in the order in which
\* the core passed them to SendMessage, whatever keys, ticks and resizes the
\* event loop handles in between: the log is an initial part of the sequence
\* of emitted Messages.
C13_LogKeepsEmissionOrder ==
    ProgramAlive =>
       /\ Len(ui.messages) <= Len(Emitted)
       /\ \A k \in 1..Len(ui.messages) : ui.messages[k] = EmittedLine(k)

\* C13 witness: three Messages are in the log of a program that has handled a
\* tick and a resize and has taken an input from the user
C13_Witness ==
    /\ ProgramAlive
    /\ Len(ui.messages) >= 3
    /\ ui.messages[2] # ui.messages[3]
    /\ ui.frame = 1
    /\ ui.width = 100
    /\ \E i \in Events : trace[i].ev = "input"

\* C14 (as claimed): every SendMessage call on the interactive TUI, in every
\* state of the UI program, puts exactly one entry into the message log.
C14_EverySendIsLogged ==
    [][(/\ frontend = "tui" /\ interactive
        /\ sending # NoMsg
        /\ sending' = NoMsg
        /\ uiPc' # "exited")
       => ui'.messages = Append(ui.messages, FormatMessage(sending))]_vars

\* C14 (amended): while the UI program is alive every Message passed to
\* SendMessage has exactly one entry in the message log, none lost and none
\* twice (the Message of a call that has not returned has none yet); once the
\* program is over SendMessage returns without an entry being made.
C14_LoggedOnceWhileProgramAlive ==
    /\ ProgramAlive =>
          /\ Len(ui.messages) = Len(Emitted) - (IF sending # NoMsg THEN 1 ELSE 0)
          /\ \A k \in 1..Len(ui.messages) : ui.messages[k] = EmittedLine(k)
    /\ (frontend = "tui" /\ interactive /\ ProgramOver) => ui.messages = <<>>

\* C14 witness: an error Message and two more are in the log and no call is
\* pending
C14_Witness ==
    /\ ProgramAlive
    /\ sending = NoMsg
    /\ Len(ui.messages) >= 3
    /\ \E k \in 1..Len(Emitted) : Emitted[k].type = MessageTypeError

\* the core is inside program.Send of a SendMessage call while the event loop
\* sits in the enter handler's `m.inputCh <- input` with the slot taken: the
\* slot is emptied only by GetUserInput, which the core cannot reach
SendStuck ==
    /\ frontend = "tui" /\ interactive
    /\ sending # NoMsg
    /\ uiPc = "blocked"
    /\ inputCh # <<>>

\* C15 (as claimed): SendMessage never blocks the core for good: no reachable
\* joint state of the core and the TUI leaves a SendMessage call unable to
\* return.
C15_SendMessageNeverStuck == ~SendStuck

\* C16 (as claimed): the TUI hands an input over (enter puts the field's value
\* on the input channel) only while the core is in GetUserInput, never while
\* it awaits the model or processes a response.
C16_InputOnlyWhileCoreWaits ==
    [][Len(inputCh') > Len(inputCh) => corePc \in {"getInput", "waitInput"}]_vars

\* the UI program is over and run() has handed out its one value on done,
\* which has been taken: nothing will ever be sent on done again
DoneSpent == frontend = "tui" /\ interactive /\ uiPc = "finished" /\ done = <<>>
\* a Close call sits in `<-t.done` and nothing will ever be sent on done
CloseStuck == DoneSpent /\ closePc = "waitDone"
\* a GetUserInput call sits in its select with no input and no done to come
InputWaitStuck == DoneSpent /\ corePc = "waitInput" /\ inputCh = <<>>

\* C17 (as claimed): Close is idempotent on every Display Surface: a second
\* Close call, made after the first has returned, returns as well and is
\* never left blocked for good.
C17_SecondCloseReturns == ~(closeCalls = 2 /\ CloseStuck)

\* C18 (as claimed): after the user has quit the interactive TUI, Run returns
\* and the Close call that main then makes returns: main's Close is never
\* left blocked for good.
C18_MainCloseReturnsAfterQuit ==
    ~(/\ closeCalls = 1
      /\ closeAt[1] = "returned"
      /\ runResult = Nil
      /\ CloseStuck)

\* C19 (as claimed): a Close call made while the core is blocked in
\* GetUserInput releases that call and returns itself: neither of the two is
\* left blocked for good on the input or done channel.
C19_CloseReleasesInputWait ==
    (closeCalls = 1 /\ closeAt[2] = "waitInput") =>
       /\ ~CloseStuck
       /\ ~(closePc = "returned" /\ InputWaitStuck)

\* the calls of GetUserInput and of the model that the history holds
Solicitations(h) == Len(SelectSeq(h, LAMBDA e : e.ev \in {"get_input", "model_call"}))
\* the places of runCore the claim names: in a model call, in GetUserInput, in
\* the dispatch of a response's items
CoreBusy == {"infer", "getInput", "content", "toolFn"}

\* C20 (as claimed): the context is cancelled while the core loop is at work
\* (in a model call, in GetUserInput, dispatching a tool): Run returns the
\* context's cancellation error, whatever the core loop was doing.
C20_RunReturnsCtxErr ==
    [][(ctxDone /\ cancelAt \in CoreBusy /\ runPc = "select" /\ runPc' = "returned")
       => runResult' = CtxErr]_vars

\* C20 (amended): a Run that returns after the cancellation while runCore's
\* result is not on errorChan returns the cancellation error (with the result
\* there, the select may return that result instead); and runCore, seeing the
\* cancellation at the top of an iteration, returns the cancellation error
\* without calling GetUserInput or the model.
C20_CancellationResult ==
    [][/\ (ctxDone /\ runPc = "select" /\ runPc' = "returned" /\ errorChan = <<>>)
          => runResult' = CtxErr
       /\ (ctxDone /\ corePc = "loop" /\ corePc' # "loop")
          => /\ corePc' = "return"
             /\ retVal' = CtxErr
             /\ Solicitations(trace') = Solicitations(trace)
             /\ conversation' = conversation
             /\ modelCalls' = modelCalls]_vars

\* C20 witness: the context was cancelled while the core was at work, runCore
\* saw it at the top of its next iteration and Run has returned the
\* cancellation error
C20_Witness ==
    /\ ctxDone
    /\ cancelAt \in CoreBusy
    /\ \E i \in Events : trace[i].ev = "ctx_done"
    /\ runPc = "returned"
    /\ runResult = CtxErr
    /\ modelCalls >= 1

\* ------------------------------- cancellation with the interactive TUI
\* the steps the program takes by itself: the goroutines of Run and runCore,
\* the gateway's answer and the event loop's handling of what was sent to it
ProgramStep ==
    \/ Run_Start
    \/ Run_Go
    \/ Run_Recv
    \/ Run_CtxDone
    \/ Core_Start
    \/ Core_Loop
    \/ Core_CtxDone
    \/ Infer_Fail
    \/ Infer_OK
    \/ Content_Text
    \/ Content_ToolNotFound
    \/ Content_ToolCall
    \/ Tool_Function
    \/ Core_AfterContent
    \/ Core_Return
    \/ TUI_SendMessage
    \/ TUI_SendMessage_Finished
    \/ TUI_GetUserInput_Request
    \/ TUI_GetUserInput_Input
    \/ TUI_GetUserInput_Done
    \/ UI_EnterUnblock
    \/ UI_QuitMsg
    \/ TUI_RunDone

\* the steps of the user at the keyboard
UserStep ==
    \/ UI_KeyRune
    \/ UI_KeyEnter
    \/ UI_KeyQuit
    \/ UI_KeyOther
    \/ UI_KeyCtrlC

NextCancelUI == ProgramStep \/ UserStep \/ Cancel

\* the interactive TUI agent under a context its owner may cancel; the Go
\* scheduler runs every goroutine that can take a step, the user and the
\* owner of the context act when they like, or never
SpecCancelUI == InitUI /\ [][NextCancelUI]_vars /\ WF_vars(ProgramStep)

\* the core sits in GetUserInput's select and neither channel has a value
InputWaitBlocked == corePc = "waitInput" /\ inputCh = <<>> /\ done = <<>>

\* C21 (as claimed): a core loop blocked awaiting user input when the context
\* is (or gets) cancelled is interrupted by the cancellation: it leaves
\* GetUserInput without the user doing anything.
C21_CancelInterruptsInputWait ==
    (ctxDone /\ InputWaitBlocked) ~> ~InputWaitBlocked

\* a Message that reports an error: a gateway failure, or a tool result with
\* is_error set
ErrorEvent(m) ==
    \/ m.type = MessageTypeError
    \/ m.type = MessageTypeToolResult /\ m.is_error
\* the renderings of m that are marked as an error: "Error: ..." of both
\* surfaces, "Tool Error (...)" of the console, "Error ..." of the TUI log
MarkedErrorLines(m) ==
    IF m.type = MessageTypeError
    THEN {"Error: " \o m.content}
    ELSE {"Tool Error (" \o m.tool_name \o "): " \o m.result,
          "Error " \o m.tool_name \o ": " \o m.result}
\* a SendMessage call returns in this step
SendReturns == sending # NoMsg /\ sending' = NoMsg /\ runPc' # "exited"
\* the step shows the Message as a marked error, in the TUI's log or on stdout
ShownMarked ==
    \E l \in MarkedErrorLines(sending) :
       IF frontend = "tui" /\ interactive
       THEN ui'.messages = Append(ui.messages, l)
       ELSE stdout' = Append(stdout, l)

\* C22 (as claimed): every error Message and every tool_result Message with
\* is_error=true passed to SendMessage is rendered as a marked error, on the
\* console and on the TUI, interactive or not.
C22_EveryErrorIsShown ==
    [][(SendReturns /\ ErrorEvent(sending)) => ShownMarked]_vars

\* C22 (amended): an error Message is rendered as a marked error by the
\* console and by the non-interactive TUI, and by the interactive TUI while
\* its UI program runs; a tool_result Message with is_error=true is rendered
\* as a marked error in interactive mode only (TUI: while the program runs);
\* the non-interactive surfaces print nothing for it, and the interactive TUI
\* shows nothing once its program is over.
C22_ErrorsShownWhereDisplayed ==
    [][(SendReturns /\ ErrorEvent(sending)) =>
          IF frontend = "tui" /\ interactive
          THEN IF ProgramRuns THEN ShownMarked ELSE UNCHANGED <<ui, stdout>>
          ELSE IF sending.type = MessageTypeError \/ interactive
               THEN ShownMarked
               ELSE UNCHANGED stdout]_vars

\* C22 witness: the interactive console has printed a failed tool result and
\* a gateway failure, both marked
C22_Witness ==
    /\ frontend = "console"
    /\ interactive
    /\ \E i, j \in 1..Len(stdout) :
          /\ stdout[i] = "Tool Error (no_such_tool): tool not found"
          /\ stdout[j] = "Error: LLM request failed: " \o LLMError

\* ------------------------------------- executeTool, one call on its own
\* the raw input of a tool invocation: JSON that fits the tool's input
\* struct, JSON of another shape (`{"path": 5}`), or text that is not JSON
RawInputs == {"fits", "mistyped", "invalid"}
JsonValid(raw) == raw # "invalid"
\* json.Unmarshal(input, &toolInput) returns nil
Unmarshals(raw) == raw = "fits"
UnmarshalError == "json: cannot unmarshal"
MarshalError == "json: error calling MarshalJSON for type json.RawMessage"

\* json.Marshal of a ToolCallData whose Input is raw: a json.RawMessage is
\* checked while it is encoded
MarshalToolCallDataOf(name, id, raw) ==
    IF JsonValid(raw) THEN MarshalToolCallData(name, id) ELSE MarshalError

\* mutant of ToolCallMessageOf: nothing is sent when the encoding fails
ToolCallMessageOf_NoFallback(name, id, raw) ==
    IF MarshalToolCallDataOf(name, id, raw) # Nil THEN NoMsg
    ELSE ToolCallMessage(name, id)

\* the tool_call Message executeTool sends for a found tool with this input
ToolCallMessageOf(name, id, raw) ==
    IF MarshalToolCallDataOf(name, id, raw) # Nil
    THEN Msg(MessageTypeToolCall, "Executing tool: " \o name, FALSE, "", 0, "", FALSE)
    ELSE ToolCallMessage(name, id)

\* what a tool function does with its raw input: list_files panics when
\* json.Unmarshal fails, the other tools return the error; with an input that
\* fits, the tool succeeds or fails as the world decides
ToolFunction(name, raw, world) ==
    IF ~Unmarshals(raw)
    THEN IF name = "list_files"
         THEN [panics |-> TRUE, response |-> "", err |-> UnmarshalError]
         ELSE [panics |-> FALSE, response |-> "", err |-> UnmarshalError]
    ELSE IF world = "ok"
         THEN [panics |-> FALSE, response |-> ToolOutput, err |-> Nil]
         ELSE [panics |-> FALSE, response |-> "", err |-> ToolError]

\* identifiers the gateway may have given the invocation
CallIds == 1..2
\* the calls of executeTool(id, name, input) that are tried
ExecCalls ==
    [pc : {"start"}, id : CallIds, name : Catalog \cup RequestedNames,
     raw : RawInputs, world : {"ok", "fails"}, msgs : {<<>>}, block : {NoMsg}]

\* executeTool, no catalog entry has the name
Exec_NotFound ==
    /\ call.pc = "start"
    /\ ~Found(call.name)
    /\ call' = [call EXCEPT !.pc = "returned",
                            !.msgs = Append(@, NotFoundMessage(call.name, call.id)),
                            !.block = NotFoundBlock(call.id)]
    /\ UNCHANGED <<cfgVars, hostVars, runVars, coreVars, sending, gwVars, trace, stdout,
                   uiVars>>

\* executeTool, the tool_call Message of a found tool
Exec_ToolCall ==
    /\ call.pc = "start"
    /\ Found(call.name)
    /\ call' = [call EXCEPT !.pc = "called",
                            !.msgs = Append(@, ToolCallMessageOf(call.name, call.id,
                                                                 call.raw))]
    /\ UNCHANGED <<cfgVars, hostVars, runVars, coreVars, sending, gwVars, trace, stdout,
                   uiVars>>

\* executeTool, toolDef.Function(input) returns: the tool_result Message and
\* the block
Exec_Function ==
    /\ call.pc = "called"
    /\ LET r == ToolFunction(call.name, call.raw, call.world)
       IN  /\ ~r.panics
           /\ call' = [call EXCEPT
                  !.pc = "returned",
                  !.msgs = Append(@, ToolResultMessage(call.name, call.id,
                                                       r.response, r.err)),
                  !.block = ExecuteToolBlock(call.name, call.id, r.response, r.err)]
    /\ UNCHANGED <<cfgVars, hostVars, runVars, coreVars, sending, gwVars, trace, stdout,
                   uiVars>>

\* executeTool, toolDef.Function(input) panics: nothing recovers, the
\* process ends
Exec_Panic ==
    /\ call.pc = "called"
    /\ ToolFunction(call.name, call.raw, call.world).panics
    /\ call' = [call EXCEPT !.pc = "panicked"]
    /\ UNCHANGED <<cfgVars, hostVars, runVars, coreVars, sending, gwVars, trace, stdout,
                   uiVars>>

InitExec ==
    /\ InitProgram
    /\ frontend = "console" /\ ~interactive /\ initialMessage = UserText
    /\ call \in ExecCalls

NextExec == Exec_NotFound \/ Exec_ToolCall \/ Exec_Function \/ Exec_Panic

SpecExec == InitExec /\ [][NextExec]_vars

\* the Messages of the call that have the given type
CallMsgs(type) == SelectSeq(call.msgs, LAMBDA m : m.type = type)

\* C23: when the encoding of a tool_call Message's data fails, executeTool
\* sends exactly one tool_call Message, with the content string and no data,
\* and the tool-result entry it returns is the one it returns for the same
\* function outcome when the encoding succeeds (the data of a tool_result
\* Message is two strings and a flag: its encoding cannot fail).
C23_EncodingFailureKeepsEvent ==
    (/\ call.pc \in {"called", "returned"}
     /\ Found(call.name)
     /\ MarshalToolCallDataOf(call.name, call.id, call.raw) # Nil)
    => /\ CallMsgs(MessageTypeToolCall) =
              <<Msg(MessageTypeToolCall, "Executing tool: " \o call.name,
                    FALSE, "", 0, "", FALSE)>>
       /\ call.pc = "returned" =>
             /\ Len(CallMsgs(MessageTypeToolResult)) = 1
             /\ Len(call.msgs) = 2
             /\ call.block = ExecuteToolBlock(call.name, call.id, "", UnmarshalError)

\* C23 witness: executeTool has returned from a call whose tool_call data
\* could not be encoded
C23_Witness ==
    /\ call.pc = "returned"
    /\ Found(call.name)
    /\ ~JsonValid(call.raw)
    /\ call.msgs[1].type = MessageTypeToolCall
    /\ ~call.msgs[1].has_data

\* C24 (as claimed): for every tool of the catalog a raw input that does not
\* unmarshal makes the function return an error, which executeTool turns
\* into a tool-result entry with is_error=true; nothing panics.
C24_MalformedInputGivesErrorEntry ==
    (/\ Found(call.name)
     /\ ~Unmarshals(call.raw)
     /\ call.pc \notin {"start", "called"})
    => /\ call.pc = "returned"
       /\ call.block.type = "tool_result"
       /\ call.block.is_error

\* the status line of View reads "Press 'q' or Ctrl+C to quit"
QuitHintShown(m) == ~m.processingTool /\ ~m.waitingForResponse
\* the event loop handles a press of the 'q' key: typed into the field, or
\* taken as the quit key
QKeyHandled == UI_KeyRune \/ UI_KeyQuit

\* C25 (as claimed): in the interactive TUI a press of 'q' quits the UI in
\* every UI state, also while the status line shows the quit hint and the
\* field accepts input.
C25_QKeyAlwaysQuits ==
    [][(QKeyHandled /\ QuitHintShown(ui)) => quitPending']_vars

\* --------------------------------------------- EditFile, one call on its own
\* file contents and the strings old_str / new_str are sequences of bytes
\* over a small alphabet
Alphabet == {"a", "b"}
\* longest old_str / new_str tried
MaxStrLen == 2
\* longest file tried
MaxFileLen == 3
Bytes(n) == UNION {[1..k -> Alphabet] : k \in 0..n}

\* the file at the path: absent, or present with its content
AbsentFile == [exists |-> FALSE, content |-> <<>>]
FileOf(content) == [exists |-> TRUE, content |-> content]

\* old occurs in s at position i
OccursAt(s, old, i) ==
    /\ i + Len(old) - 1 <= Len(s)
    /\ SubSeq(s, i, i + Len(old) - 1) = old
Occurs(s, old) == \E i \in 1..(Len(s) + 1) : OccursAt(s, old, i)

\* strings.Replace(s, old, new, -1): every non-overlapping occurrence, from
\* the left; an empty old matches before every byte and at the end
RECURSIVE ReplaceAll(_, _, _)
ReplaceAll(s, old, new) ==
    IF old = <<>>
    THEN IF s = <<>> THEN new
         ELSE new \o <<Head(s)>> \o ReplaceAll(Tail(s), old, new)
    ELSE IF Len(s) < Len(old) THEN s
    ELSE IF OccursAt(s, old, 1)
         THEN new \o ReplaceAll(SubSeq(s, Len(old) + 1, Len(s)), old, new)
         ELSE <<Head(s)>> \o ReplaceAll(Tail(s), old, new)

ErrInvalidParams == "invalid input parameters"
ErrNotFound == "old_str not found in file"
ErrNotExist == "no such file or directory"
ErrWrite == "write failed"

\* os.WriteFile(path, content, 0644) in a world where writes succeed, fail
\* before the file is touched, or fail after it was truncated
WriteFile(file, content, world) ==
    CASE world = "ok" -> [file |-> FileOf(content), err |-> Nil]
      [] world = "fails" -> [file |-> file, err |-> ErrWrite]
      [] OTHER -> [file |-> FileOf(<<>>), err |-> ErrWrite]

\* createNewFile for a path in the working directory (path.Dir is ".")
CreateNewFile(file, content, world) ==
    LET w == WriteFile(file, content, world)
    IN  IF w.err # Nil
        THEN [response |-> "", err |-> "failed to create file: " \o w.err, file |-> w.file]
        ELSE [response |-> "Successfully created file", err |-> Nil, file |-> w.file]

\* mutant of EditFile: the file is written also when old_str does not occur
EditFile_NoFoundCheck(in, file, world) ==
    IF ~Unmarshals(in.raw) THEN [response |-> "", err |-> UnmarshalError, file |-> file]
    ELSE IF in.path = "" \/ in.old = in.new
    THEN [response |-> "", err |-> ErrInvalidParams, file |-> file]
    ELSE IF ~file.exists
    THEN IF in.old = <<>> THEN CreateNewFile(file, in.new, world)
         ELSE [response |-> "", err |-> ErrNotExist, file |-> file]
    ELSE LET w == WriteFile(file, ReplaceAll(file.content, in.old, in.new), world)
         IN  IF w.err # Nil THEN [response |-> "", err |-> w.err, file |-> w.file]
             ELSE [response |-> "OK", err |-> Nil, file |-> w.file]

\* EditFile(input) on the file at the path: the response, the error and the
\* file afterwards
EditFile(in, file, world) ==
    IF ~Unmarshals(in.raw) THEN [response |-> "", err |-> UnmarshalError, file |-> file]
    ELSE IF in.path = "" \/ in.old = in.new
    THEN [response |-> "", err |-> ErrInvalidParams, file |-> file]
    ELSE IF ~file.exists
    THEN IF in.old = <<>> THEN CreateNewFile(file, in.new, world)
         ELSE [response |-> "", err |-> ErrNotExist, file |-> file]
    ELSE LET newContent == ReplaceAll(file.content, in.old, in.new)
         IN  IF file.content = newContent /\ in.old # <<>>
             THEN [response |-> "", err |-> ErrNotFound, file |-> file]
             ELSE LET w == WriteFile(file, newContent, world)
                  IN  IF w.err # Nil
                      THEN [response |-> "", err |-> w.err, file |-> w.file]
                      ELSE [response |-> "OK", err |-> Nil, file |-> w.file]

\* the inputs of EditFile that are tried and the files they meet
EditInputs ==
    [raw : RawInputs, path : {"", "f"}, old : Bytes(MaxStrLen), new : Bytes(MaxStrLen)]
EditFiles == {AbsentFile} \cup {FileOf(c) : c \in Bytes(MaxFileLen)}
EditCalls ==
    {[pc |-> "start", in |-> i, before |-> f, file |-> f, world |-> w,
      response |-> "", err |-> Nil] :
        i \in EditInputs, f \in EditFiles, w \in {"ok", "fails", "truncates"}}

\* EditFile is called and returns
Edit_Call ==
    /\ call.pc = "start"
    /\ LET r == EditFile(call.in, call.before, call.world)
       IN  call' = [call EXCEPT !.pc = "returned", !.file = r.file,
                                !.response = r.response, !.err = r.err]
    /\ UNCHANGED <<cfgVars, hostVars, runVars, coreVars, sending, gwVars, trace, stdout,
                   uiVars>>

InitEdit ==
    /\ InitProgram
    /\ frontend = "console" /\ ~interactive /\ initialMessage = UserText
    /\ call \in EditCalls

NextEdit == Edit_Call

SpecEdit == InitEdit /\ [][NextEdit]_vars

\* the inputs of which C26 speaks
RejectedEdit(in, file) ==
    \/ ~Unmarshals(in.raw)
    \/ in.path = ""
    \/ in.old = in.new
    \/ file.exists /\ in.old # <<>> /\ ~Occurs(file.content, in.old)
    \/ ~file.exists /\ in.old # <<>>

\* C26: EditFile returns an error and leaves the file as it was (none
\* created, no content changed) whenever the input is not valid JSON, the
\* path is empty, old_str equals new_str, old_str is non-empty and does not
\* occur in the existing file, or the file does not exist and old_str is
\* non-empty.
C26_RejectedEditChangesNothing ==
    (call.pc = "returned" /\ RejectedEdit(call.in, call.before))
    => /\ call.err # Nil
       /\ call.response = ""
       /\ call.file = call.before

\* C26 witness: a well-formed edit of an existing, non-empty file whose
\* old_str does not occur in it was refused
C26_Witness ==
    /\ call.pc = "returned"
    /\ Unmarshals(call.in.raw)
    /\ call.in.path = "f"
    /\ call.before.exists
    /\ Len(call.before.content) >= 2
    /\ call.in.old # <<>>
    /\ call.in.old # call.in.new
    /\ ~Occurs(call.before.content, call.in.old)
    /\ call.err = ErrNotFound

\* C27 (as claimed): a successful EditFile on an existing file, given a
\* non-empty old_str, replaces exactly one occurrence of old_str by new_str
\* and leaves every other byte of the file unchanged.
C27_ReplacesExactlyOneMatch ==
    (/\ call.pc = "returned" /\ call.err = Nil /\ call.before.exists
     /\ call.in.old # <<>>)
    => \E i \in 1..(Len(call.before.content) + 1) :
          /\ OccursAt(call.before.content, call.in.old, i)
          /\ call.file =
                FileOf(SubSeq(call.before.content, 1, i - 1) \o call.in.new
                       \o SubSeq(call.before.content, i + Len(call.in.old),
                                 Len(call.before.content)))

\* the session flags of the tuiModel
Flags(m) == <<m.waitingForInput, m.waitingForResponse, m.processingTool, m.currentToolName>>
\* the event loop handles enter while the field accepts keys, or completes
\* the send of such a handler
EnterHandled == UI_KeyEnter \/ UI_EnterUnblock

\* C28: while the field accepts keys, enter with a non-empty buffer puts the
\* buffer's content on the input channel, once, empties the buffer, leaves
\* accepting-input, enters awaiting-model and schedules a tick (the handler
\* waits in the send, with nothing changed, while the channel's slot is
\* taken); enter with an empty buffer puts nothing on the channel and
\* changes no flag.
C28_EnterHandsOverBuffer ==
    [][EnterHandled =>
          IF ui.textInput = ""
          THEN UNCHANGED <<ui, inputCh, tickPending>>
          ELSE \/ /\ inputCh # <<>>
                  /\ uiPc' = "blocked"
                  /\ UNCHANGED <<ui, inputCh>>
               \/ /\ inputCh' = Append(inputCh, ui.textInput)
                  /\ ui'.textInput = ""
                  /\ ~ui'.waitingForInput
                  /\ ui'.waitingForResponse
                  /\ tickPending'
                  /\ ui'.processingTool = ui.processingTool
                  /\ ui'.currentToolName = ui.currentToolName
                  /\ ui'.messages = ui.messages]_vars

\* C28 witness: enter has handed the buffer over: it is on the channel, the
\* field is empty, the model is awaited and a tick is under way
C28_Witness ==
    /\ ProgramRuns
    /\ inputCh = <<"q">>
    /\ ui.textInput = ""
    /\ ~ui.waitingForInput
    /\ ui.waitingForResponse
    /\ tickPending

\* C29: while the field does not accept keys (not accepting input, or
\* awaiting the model, or a tool in progress) a key that is not a quit key
\* changes neither the buffer nor a session flag nor the message log and
\* puts nothing on the input channel.
C29_IgnoredKeyChangesNothing ==
    [][UI_KeyOther =>
          /\ ui'.textInput = ui.textInput
          /\ Flags(ui') = Flags(ui)
          /\ ui'.messages = ui.messages
          /\ inputCh' = inputCh]_vars

\* C29 witness: a turn is in flight: the model is awaited by a program that
\* takes keys, after an input was handed over
C29_Witness ==
    /\ ProgramRuns
    /\ ui.waitingForResponse
    /\ ~AcceptsKeys(ui)
    /\ Len(ui.messages) >= 2
    /\ corePc = "infer"

\* -------------------------------------- Update, case messageReceivedMsg
\* the Messages the agent constructs: those of Run and runCore, and those of
\* executeTool for an input that encodes and for one that does not
RecvNames == {"list_files", "read_file"}
RecvMsgs ==
    {Msg(MessageTypeUserInput, UserText, FALSE, "", 0, "", FALSE),
     Msg(MessageTypeSystemInfo, "Chat with Tiny Trae (use CTRL+C to exit)",
         FALSE, "", 0, "", FALSE),
     Msg(MessageTypeError, "LLM request failed: " \o LLMError, FALSE, "", 0, "", FALSE),
     Msg(MessageTypeAssistant, AssistantText, FALSE, "", 0, "", FALSE)}
    \cup {ToolCallMessageOf(n, 1, raw) : n \in RecvNames, raw \in {"fits", "invalid"}}
    \cup {ToolResultMessage(n, 1, ToolOutput, e) : n \in RecvNames, e \in {Nil, ToolError}}
    \cup {NotFoundMessage("no_such_tool", 1)}

\* the states of the tuiModel a Message arrives in
RecvModels ==
    {[NewTuiModel EXCEPT !.messages = log, !.waitingForInput = wi,
                         !.waitingForResponse = wr, !.processingTool = t[1],
                         !.currentToolName = t[2], !.textInput = txt] :
        log \in {<<>>, <<"You: " \o UserText>>},
        wi \in BOOLEAN, wr \in BOOLEAN,
        t \in {<<FALSE, "">>, <<TRUE, "list_files">>, <<TRUE, "read_file">>},
        txt \in FieldTexts}

RecvCalls ==
    {[pc |-> "start", m |-> m, msg |-> msg, out |-> m] :
        m \in RecvModels, msg \in RecvMsgs}

\* Update handles one messageReceivedMsg
Recv_Call ==
    /\ call.pc = "start"
    /\ call' = [call EXCEPT !.pc = "returned",
                            !.out = UpdateMessageReceived(call.m, call.msg)]
    /\ UNCHANGED <<cfgVars, hostVars, runVars, coreVars, sending, gwVars, trace, stdout,
                   uiVars>>

InitRecv ==
    /\ InitProgram
    /\ frontend = "tui" /\ interactive /\ initialMessage = ""
    /\ call \in RecvCalls

NextRecv == Recv_Call

SpecRecv == InitRecv /\ [][NextRecv]_vars

\* the handler appended exactly one line and left the field alone
OneLineAppended ==
    /\ Len(call.out.messages) = Len(call.m.messages) + 1
    /\ SubSeq(call.out.messages, 1, Len(call.m.messages)) = call.m.messages
    /\ call.out.textInput = call.m.textInput

\* the flags after a Message that is no tool_call
NonCallFlags ==
    CASE call.msg.type = MessageTypeToolResult ->
            Flags(call.out) = <<call.m.waitingForInput, call.m.waitingForResponse,
                                FALSE, "">>
      [] call.msg.type = MessageTypeAssistant ->
            Flags(call.out) = <<TRUE, FALSE, call.m.processingTool,
                                call.m.currentToolName>>
      [] OTHER -> Flags(call.out) = Flags(call.m)

\* the tool a tool_call Message is about: the one its content line names
NamedTool(msg) == CHOOSE n \in RecvNames : msg.content = "Executing tool: " \o n

\* C30 (as claimed): on every Message it receives the TUI appends exactly one
\* line to the message log; a tool_call Message sets tool-in-progress and
\* records the tool's name, a tool_result Message clears both, an assistant
\* Message clears awaiting-model and sets accepting-input; user_input, error
\* and system_info Messages change no flag.
C30_MessageEffects ==
    call.pc = "returned"
    => /\ OneLineAppended
       /\ IF call.msg.type = MessageTypeToolCall
          THEN Flags(call.out) = <<call.m.waitingForInput, call.m.waitingForResponse,
                                   TRUE, NamedTool(call.msg)>>
          ELSE NonCallFlags

\* C30 (amended): as claimed, except that a tool_call Message records the
\* tool's name only when it carries data: the tool_call Message without data
\* (the one executeTool sends when the encoding of the data fails) sets
\* tool-in-progress and leaves the recorded name as it was.
C30_MessageEffectsByData ==
    call.pc = "returned"
    => /\ OneLineAppended
       /\ IF call.msg.type = MessageTypeToolCall
          THEN Flags(call.out) =
                   <<call.m.waitingForInput, call.m.waitingForResponse, TRUE,
                     IF call.msg.has_data THEN NamedTool(call.msg)
                     ELSE call.m.currentToolName>>
          ELSE NonCallFlags

\* C30 witness: a tool_call Message without data was received after another
\* tool's name was recorded: the tool is in progress under the old name
C30_Witness ==
    /\ call.pc = "returned"
    /\ call.msg.type = MessageTypeToolCall
    /\ ~call.msg.has_data
    /\ NamedTool(call.msg) = "list_files"
    /\ call.out.processingTool
    /\ call.out.currentToolName = "read_file"

\* C31: on an input-requested event the TUI sets accepting-input, clears
\* awaiting-model and empties the input buffer, and leaves tool-in-progress,
\* the tool's name and the message log as they were; a GetUserInput call of
\* the interactive TUI issues one such event, from where it was called, and
\* then waits; it starts to wait in no other way.
C31_InputRequestEffects ==
    [][/\ (TUI_GetUserInput_Request /\ ProgramRuns)
          => /\ ui'.waitingForInput
             /\ ~ui'.waitingForResponse
             /\ ui'.textInput = ""
             /\ ui'.processingTool = ui.processingTool
             /\ ui'.currentToolName = ui.currentToolName
             /\ ui'.messages = ui.messages
             /\ inputCh' = inputCh
       /\ TUI_GetUserInput_Request => (corePc = "getInput" /\ corePc' = "waitInput")
       /\ (frontend = "tui" /\ corePc # "waitInput" /\ corePc' = "waitInput")
          => TUI_GetUserInput_Request]_vars

\* C31 witness: after a turn, with a key typed into the field, the next
\* GetUserInput call has issued its event and waits: the field is empty
C31_Witness ==
    /\ frontend = "tui" /\ interactive
    /\ ProgramRuns
    /\ corePc = "waitInput"
    /\ inputCh = <<>>
    /\ ui.waitingForInput /\ ~ui.waitingForResponse
    /\ ui.textInput = ""
    /\ Len(ui.messages) >= 3
    /\ \E k \in 1..Len(trace) : trace[k].ev = "model_call"

\* the interactive TUI started without an initial message: every turn begins
\* with a line entered in the terminal, which is what starts the ticks
InitTick == InitUI /\ initialMessage = ""

\* the terminal session of the tick handler: the window keeps its size
NextTick ==
    \/ Run_Start
    \/ Run_Go
    \/ Run_Recv
    \/ Core_Start
    \/ Core_Loop
    \/ Infer_Fail
    \/ Infer_OK
    \/ Content_Text
    \/ Content_ToolNotFound
    \/ Content_ToolCall
    \/ Tool_Function
    \/ Core_AfterContent
    \/ Core_Return
    \/ TUI_SendMessage
    \/ TUI_SendMessage_Finished
    \/ TUI_GetUserInput_Request
    \/ TUI_GetUserInput_Input
    \/ TUI_GetUserInput_Done
    \/ UI_KeyRune
    \/ UI_KeyEnter
    \/ UI_EnterUnblock
    \/ UI_KeyQuit
    \/ UI_KeyOther
    \/ UI_KeyCtrlC
    \/ UI_QuitMsg
    \/ TUI_RunDone
    \/ UI_Tick

\* the event loop handles every tick that is under way (the timer of a tick
\* command fires)
SpecTick == InitTick /\ [][NextTick]_vars /\ WF_vars(UI_Tick)

\* a response is awaited or a tool is running
TurnInFlight(m) == m.waitingForResponse \/ m.processingTool
\* the tick changed nothing of the model but the spinner's frame
OnlyFrameChanged == [ui' EXCEPT !.frame = ui.frame] = ui

\* C32 (as claimed): a tick advances the spinner and schedules a further tick
\* only while a response is awaited or a tool is running; with both flags
\* false it neither advances the spinner nor schedules a tick.
C32_TickOnlyWhileTurnInFlight ==
    [][UI_Tick =>
          /\ OnlyFrameChanged
          /\ IF TurnInFlight(ui)
             THEN ui'.frame = (ui.frame + 1) % SpinnerFrames /\ tickPending'
             ELSE ui'.frame = ui.frame /\ ~tickPending']_vars

\* C32 (amended): every tick the event loop handles advances the spinner; a
\* further tick is scheduled exactly while a response is awaited or a tool
\* is running, so that with both flags false a tick under way is the last:
\* ticking stops once the turn is over.
C32_TickReschedulesWhileTurnInFlight ==
    /\ [][UI_Tick =>
             /\ OnlyFrameChanged
             /\ ui'.frame = (ui.frame + 1) % SpinnerFrames
             /\ tickPending' = TurnInFlight(ui)]_vars
    /\ (ProgramRuns /\ tickPending /\ ~TurnInFlight(ui))
          ~> (~tickPending \/ TurnInFlight(ui) \/ ~ProgramRuns)

\* C32 witness: the turn is over (the assistant Message was received, input
\* is accepted), the last tick was handled and none is under way, and the
\* spinner has moved
C32_Witness ==
    /\ ProgramRuns
    /\ ~TurnInFlight(ui)
    /\ ui.waitingForInput
    /\ ~tickPending
    /\ ui.frame = 1
    /\ \E k \in 1..Len(ui.messages) : ui.messages[k] = "Trae: " \o AssistantText

\* the fields of the tuiModel that are layout geometry
Geometry == {"width", "height", "viewportWidth", "viewportHeight", "inputWidth", "wrapWidth"}

\* C33: a window-resize event changes only layout geometry (width, height,
\* viewport size, input width, wrap width): the message log, the input
\* buffer, the session flags and the spinner stay as they were, nothing is
\* put on the input channel and no tick is scheduled.
C33_ResizeChangesGeometryOnly ==
    [][UI_WindowSize =>
          /\ \A f \in (DOMAIN ui) \ Geometry : ui'[f] = ui[f]
          /\ \E size \in Sizes :
                /\ ui'.width = size[1] /\ ui'.height = size[2]
                /\ ui'.viewportWidth = size[1] /\ ui'.viewportHeight = size[2] - 4
          /\ UNCHANGED <<inputCh, tickPending, quitPending>>]_vars

\* C33 witness: the window was resized with lines in the log and a response
\* awaited: the geometry is the new one, the log and the flags are there
C33_Witness ==
    /\ ProgramRuns
    /\ ui.width = 100 /\ ui.wrapWidth = 90
    /\ ui.waitingForResponse
    /\ Len(ui.messages) >= 1
    /\ inputCh # <<>>

\* ------------------------------------------- program.Send and Update apart
\* program.Send returns as soon as the event loop has taken the event from
\* its channel; the loop runs Update on it afterwards, before it takes
\* another event.  Here the two are steps of their own: `call` holds the
\* event the loop has taken and not yet handled.
EventInHand(kind, msg) == [pc |-> "update", event |-> kind, msg |-> msg]

\* TUIFrontend.SendMessage: the event loop takes the messageReceivedMsg
Async_Send ==
    /\ frontend = "tui"
    /\ interactive
    /\ sending # NoMsg
    /\ ProgramRuns
    /\ call = NoCall
    /\ call' = EventInHand("messageReceived", sending)
    /\ sending' = NoMsg
    /\ UNCHANGED <<cfgVars, hostVars, runVars, coreVars, gwVars, trace, stdout, uiVars>>

\* TUIFrontend.GetUserInput: the event loop takes the inputRequestMsg (after
\* the program's end program.Send returns without delivering)
Async_Request ==
    /\ frontend = "tui"
    /\ interactive
    /\ corePc = "getInput"
    /\ \/ ProgramRuns /\ call = NoCall /\ call' = EventInHand("inputRequest", NoMsg)
       \/ ProgramOver /\ UNCHANGED call
    /\ corePc' = "waitInput"
    /\ UNCHANGED <<cfgVars, hostVars, runVars, retVal, conversation, readUserInput, message,
                   idx, toolResults, sending, gwVars, trace, stdout, uiVars>>

\* the event loop runs Update on the event it has taken
Async_Update ==
    /\ call # NoCall
    /\ call.pc = "update"
    /\ ui' = IF call.event = "messageReceived"
             THEN UpdateMessageReceived(ui, call.msg)
             ELSE UpdateInputRequest(ui)
    /\ tickPending' = IF call.event = "messageReceived"
                         /\ call.msg.type = MessageTypeToolCall
                      THEN TRUE ELSE tickPending
    /\ call' = NoCall
    /\ UNCHANGED <<cfgVars, hostVars, runVars, coreVars, sending, gwVars, trace, stdout,
                   uiPc, inputCh, done, quitPending>>

\* the event loop, with no event in hand, takes a key press, a tick or the
\* QuitMsg and handles it
Async_UIEvent ==
    /\ call = NoCall
    /\ \/ UI_KeyRune
       \/ UI_KeyEnter
       \/ UI_EnterUnblock
       \/ UI_KeyQuit
       \/ UI_KeyOther
       \/ UI_KeyCtrlC
       \/ UI_QuitMsg
       \/ UI_Tick

NextAsync ==
    \/ Run_Start
    \/ Run_Go
    \/ Run_Recv
    \/ Core_Start
    \/ Core_Loop
    \/ Infer_Fail
    \/ Infer_OK
    \/ Content_Text
    \/ Content_ToolNotFound
    \/ Content_ToolCall
    \/ Tool_Function
    \/ Core_AfterContent
    \/ Core_Return
    \/ Async_Send
    \/ TUI_SendMessage_Finished
    \/ Async_Request
    \/ Async_Update
    \/ TUI_GetUserInput_Input
    \/ TUI_GetUserInput_Done
    \/ Async_UIEvent
    \/ TUI_RunDone

SpecAsync == InitUI /\ [][NextAsync]_vars

\* positions of the history at which executeTool is entered, and at which it
\* returns
ExecAt == {i \in Events : trace[i].ev = "exec"}
RetAt  == {i \in Events : trace[i].ev = "ret"}
\* the last successful model response before position j (0 when none)
ResponseBefore(j) ==
    LET earlier == {i \in 1..(j - 1) : trace[i].ev = "model_ok"}
    IN  IF earlier = {} THEN 0 ELSE CHOOSE i \in earlier : \A k \in earlier : k <= i

\* the tool invocations are dispatched one at a time, in the order they
\* appear (the gateway numbers them in that order): executeTool has returned
\* from one before it is entered for the next, the tool_result Message of an
\* invocation is emitted after its tool_call Message and before the
\* tool_call Message of every later invocation, and all of a turn's results
\* are emitted before the tool-results turn is appended
DispatchedInOrder ==
    /\ Cardinality(ExecAt) - Cardinality(RetAt) \in {0, 1}
    /\ \A i, j \in ExecAt :
          i < j => /\ trace[i].id < trace[j].id
                   /\ \E k \in RetAt : i < k /\ k < j /\ trace[k].id = trace[i].id
    /\ \A j \in SendsOf(MessageTypeToolCall) :
          /\ \A i \in SendsOf(MessageTypeToolResult) :
                (trace[i].id < trace[j].id) <=> (i < j)
          /\ \A i \in SendsOf(MessageTypeToolCall) : i # j => trace[i].id # trace[j].id
    /\ \A j \in Events :
          (trace[j].ev = "append" /\ trace[j].type = "tool_results") =>
             LET r == ResponseBefore(j)
             IN  /\ r > 0
                 /\ trace[r].n >= 1
                 /\ Cardinality({i \in SendsOf(MessageTypeToolResult) : r < i /\ i < j})
                       = trace[r].n
                 /\ Cardinality({i \in RetAt : r < i /\ i < j}) = trace[r].n
                 /\ \A i \in ExecAt : i > j => \E k \in (j + 1)..(i - 1) :
                                                  trace[k].ev = "model_ok"

\* the core is about to issue a model call: runInference is the next thing
\* it does
AtModelCall == frontend = "tui" /\ interactive /\ corePc = "infer" /\ sending = NoMsg

\* C34 (as claimed): the tool invocations of an assistant turn are dispatched
\* one at a time in the order they appear, the tool_result Message of one
\* before the tool_call Message of the next, all before the tool-results
\* turn is appended; and the TUI's tool-in-progress flag is false whenever
\* the core issues the next model call.
C34_ToolsOneAtATime ==
    /\ DispatchedInOrder
    /\ AtModelCall => ~ui.processingTool

\* C34 (amended): the dispatch is as claimed; when the core issues a model
\* call every tool_call Message has been followed by its tool_result
\* Message, and the TUI's tool-in-progress flag is false or the event loop
\* has taken the last tool_result Message and has yet to run Update on it.
C34_ToolsOneAtATimeFlagFollows ==
    /\ DispatchedInOrder
    /\ AtModelCall =>
          /\ Cardinality(ExecAt) = Cardinality(RetAt)
          /\ \/ ~ui.processingTool
             \/ /\ call # NoCall
                /\ call.event = "messageReceived"
                /\ call.msg.type = MessageTypeToolResult

\* C34 witness: a tool was dispatched and its result appended; the core is
\* about to call the model again while the event loop has the tool_result
\* Message in hand, the flag still set
C34_Witness ==
    /\ AtModelCall
    /\ ProgramRuns
    /\ IsToolResultsTurn(Last(conversation))
    /\ ui.processingTool
    /\ call = EventInHand("messageReceived",
                          ToolResultMessage("list_files", 1, ToolOutput, Nil))

\* C35 (as claimed): the input channel never holds more than one input and
\* the send of the enter handler never blocks the event loop: whenever the
\* TUI accepts enter with a non-empty buffer the input channel is empty.
C35_EnterNeverBlocks ==
    /\ Len(inputCh) <= 1
    /\ uiPc # "blocked"
    /\ (ProgramRuns /\ AcceptsKeys(ui) /\ ui.textInput # "") => inputCh = <<>>

\* positions of the conversation with a successor
Adjacent == {i \in 1..Len(conversation) : i < Len(conversation)}
\* a model call given the conversation of length n has failed
FailedAt(n) ==
    \E k \in Events : /\ k < Len(trace)
                      /\ trace[k].ev = "model_call" /\ trace[k].n = n
                      /\ trace[k + 1].ev = "model_fail"

\* C36 (as claimed): in interactive mode user-side turns (user text or tool
\* results) and assistant turns strictly alternate, starting with a
\* user-side turn, whatever the inputs, model successes and model failures.
C36_TurnsAlternate ==
    interactive =>
       /\ conversation # <<>> => conversation[1].role = "user"
       /\ \A i \in Adjacent : conversation[i].role # conversation[i + 1].role

\* C36 (amended): the conversation starts with a user-side turn and an
\* assistant turn stands only directly after a user-side turn; two
\* user-side turns are adjacent only where a model call failed: the second
\* is then the user text turn read after the failure, appended directly
\* after the turn (user text or tool results) the failed call was given.
\* While no model call has failed the turns strictly alternate.
C36_TurnsAlternateUnlessFailure ==
    /\ conversation # <<>> => conversation[1].role = "user"
    /\ \A i \in Adjacent :
          /\ IsAssistantTurn(conversation[i]) => conversation[i + 1].role = "user"
          /\ (conversation[i].role = "user" /\ conversation[i + 1].role = "user")
                => /\ interactive
                   /\ IsUserTextTurn(conversation[i + 1])
                   /\ FailedAt(i)
    /\ (EventsOf("model_fail") = {})
          => \A i \in Adjacent : conversation[i].role # conversation[i + 1].role

\* C36 witness: interactive, the model call for the first input failed, a
\* second input was read and answered: two user text turns, then the
\* assistant turn
C36_Witness ==
    /\ interactive
    /\ Len(conversation) = 3
    /\ IsUserTextTurn(conversation[1])
    /\ IsUserTextTurn(conversation[2])
    /\ IsAssistantTurn(conversation[3])
    /\ FailedAt(1)

\* C37: in every reachable state of the TUI the flags waitingForInput and
\* waitingForResponse are not both true, for every interleaving of key
\* presses, received Messages, input requests, ticks and resizes.
C37_NotAcceptingWhileAwaiting ==
    ~(ui.waitingForInput /\ ui.waitingForResponse)

\* C37 witness: an input was entered ahead of its request (the model was
\* awaited from then on), and the input request has arrived since: input is
\* accepted, the model is not awaited
C37_Witness ==
    /\ ProgramRuns
    /\ corePc = "waitInput"
    /\ inputCh # <<>>
    /\ ui.waitingForInput
    /\ ~ui.waitingForResponse
    /\ ui.width = 100

\* ------------------------------------------------------ the done channel
\* the interactive TUI, the Close calls of its host and a gateway that is
\* down (every model call fails, the loop returns to the input): what is sent
\* on done and received from it does not depend on the model's answers
NextDone ==
    \/ Run_Start
    \/ Run_Go
    \/ Run_Recv
    \/ Core_Start
    \/ Core_Loop
    \/ Infer_Fail
    \/ Core_Return
    \/ TUI_SendMessage
    \/ TUI_SendMessage_Finished
    \/ TUI_GetUserInput_Request
    \/ TUI_GetUserInput_Input
    \/ TUI_GetUserInput_Done
    \/ UI_KeyRune
    \/ UI_KeyEnter
    \/ UI_KeyQuit
    \/ UI_KeyOther
    \/ UI_KeyCtrlC
    \/ UI_QuitMsg
    \/ TUI_RunDone
    \/ Host_Close
    \/ TUI_Close_Quit
    \/ TUI_Close_Select
    \/ TUI_Close_WaitDone

SpecDone == InitUI /\ [][NextDone]_vars

\* C38: one value at most is ever sent on the done channel, by run when the
\* UI program has exited: the channel holds a value only after that send,
\* every send is the step by which run finishes, and once run has finished
\* the channel gains nothing; so one receive on done at most completes in
\* an execution, the waits of GetUserInput and of Close counted together.
C38_DoneIsSentOnce ==
    /\ [](/\ Len(done) <= 1
          /\ done # <<>> => uiPc = "finished")
    /\ [][/\ Len(done') > Len(done)
             => (uiPc = "quit" /\ uiPc' = "finished" /\ done = <<>>)
          /\ uiPc = "finished" => (uiPc' = "finished" /\ Len(done') <= Len(done))
          /\ Len(done') < Len(done)
             => (TUI_GetUserInput_Done \/ TUI_Close_Select \/ TUI_Close_WaitDone)]_vars

\* C38 witness: Close has received the one value of done and returned, and
\* the core's GetUserInput is still waiting on the empty channel
C38_Witness ==
    /\ uiPc = "finished"
    /\ done = <<>>
    /\ closePc = "returned"
    /\ corePc = "waitInput"

\* ------------------------------------------------- the non-interactive run
\* Run on a Frontend that is not interactive, every step of the program
\* taken in the end: the model calls and the tool calls return
InitBatch == Init /\ ~interactive

NextBatch ==
    \/ Run_Start
    \/ Run_Go
    \/ Run_Recv
    \/ Core_Start
    \/ Core_Loop
    \/ Infer_Fail
    \/ Infer_OK
    \/ Content_Text
    \/ Content_ToolNotFound
    \/ Content_ToolCall
    \/ Tool_Function
    \/ Core_AfterContent
    \/ Core_Return
    \/ Console_SendMessage
    \/ Console_GetUserInput_EOF
    \/ TUI_SendMessage_Fallback
    \/ TUI_GetUserInput_NotInteractive

SpecBatch == InitBatch /\ [][NextBatch]_vars /\ WF_vars(NextBatch)

\* the history positions of the responses without tool invocation
ToolFree == {i \in Events : trace[i].ev = "model_ok" /\ trace[i].n = 0}
\* a model call has failed, or has returned a turn without tool invocation
Settled == EventsOf("model_fail") # {} \/ ToolFree # {}
\* the gateway of the model has answered all the calls it answers
BudgetSpent == corePc = "infer" /\ sending = NoMsg /\ modelCalls = MaxModelCalls

C40_ResultSendNeverBlocks ==
    /\ (corePc = "return") => errorChan = <<>>
    /\ Len(errorChan) <= 1
    /\ errorChan # <<>> => corePc = "done"
    /\ Cardinality(EventsOf("return")) <= 1
    /\ corePc = "done" <=> EventsOf("return") # {}

\* C40 witness: Run has returned the cancellation error, the core goroutine
\* has sent its result since and is done; the value stays in the channel
C40_Witness ==
    /\ ctxDone
    /\ runPc = "returned"
    /\ runResult = CtxErr
    /\ corePc = "done"
    /\ errorChan = <<CtxErr>>

====
